---- MODULE Spec2Model ----
(***************************************************************************)
(* Model of the asynchronous comparison-job pipeline of two-video-compare: *)
(* the in-memory job store, the create / retry / poll route handlers, the  *)
(* orchestrator runJob with its overall timeout, and the background        *)
(* transcription (ASR) worker pool.                                        *)
(*                                                                         *)
(* Node.js runs one callback at a time, so every action below is one       *)
(* synchronous segment of a handler: from its entry (or from the await it  *)
(* resumes at) to its next await or its return.                            *)
(***************************************************************************)
EXTENDS Integers, Sequences, FiniteSets, TLC

VARIABLES
    jobs,           \* store.jobs: the job records, in creation order
    collections,    \* store.collections (ids)
    fabVersions,    \* store.fabVersions (ids)
    runs,           \* runJob executions: timer pending, suspended at an await, or ended
    polls,          \* GET /jobs/:id handlers, suspended at a transcript read or ended
    probes,         \* tryScheduleAsrForSource calls suspended at their file checks
    transcriptFile, \* <VIDEO_CACHE_DIR>/<token>.transcript.txt : content or None
    ASR_ENABLED,    \* process.env.ASR_ENABLED === '1'
    ASR_CONCURRENCY,\* Number(process.env.ASR_CONCURRENCY || 1)
    active,         \* asr.ts: let active = 0
    queue,          \* asr.ts: const queue: Job[]
    executing,      \* transcription jobs between queue.shift() and the finally block
    wakeups,        \* pending setImmediate(worker) callbacks
    settled,        \* state of the promise scheduleASR returned, per transcription job
    now,            \* the wall clock (new Date())
    requests,       \* handleCompare executions of the direct compare servers (v1, v2)
    rawFile,        \* <VIDEO_CACHE_DIR>/<token>.raw.mp4 : its size, or NoFile
    sanFile,        \* <VIDEO_CACHE_DIR>/<token>.san.mp4 : absent, partial or complete
    call,           \* the library function applied last, with its arguments
    value,          \* what that call returned
    last            \* the operation that made the last step, and its response

vars == <<jobs, collections, fabVersions, runs, polls, probes, transcriptFile,
          ASR_ENABLED, ASR_CONCURRENCY, active, queue, executing, wakeups,
          settled, now, requests, rawFile, sanFile, call, value, last>>

jobVars == <<jobs, collections, fabVersions, runs, polls, probes>>
asrVars == <<active, queue, executing, wakeups, settled>>
envVars == <<ASR_ENABLED, ASR_CONCURRENCY>>
cmpVars == <<requests, rawFile, sanFile>>
pureVars == <<call, value>>

----------------------------------------------------------------------------
(* Bounds of the model *)

MaxJobs == 1          \* jobs created
MaxRuns == 2          \* runJob executions scheduled (create + retries)
MaxPolls == 1         \* poll requests that reach a transcript read
MaxClock == 1         \* ticks of the wall clock
MaxRunAsrJobs == 1    \* transcription jobs scheduled by runJob
MaxAsrJobs == 3       \* transcription jobs scheduled by direct callers of scheduleASR
MaxConcurrency == 2   \* largest configured ASR_CONCURRENCY
MaxRequests == 2      \* direct compare requests accepted
MaxProxied == 1       \* requests posted through the proxy route
MaxProse == 2         \* tokens of prose before and after the JSON of a reply
MaxKeyLen == 4        \* characters of a key
MaxYtRetries == 6     \* largest retries value of a yt-dlp call
MaxRecs == 2          \* recommendations in one parsed_data
MaxActions == 4       \* entries of the actions array a model returns

\* asr.ts: Number(process.env.ASR_CONCURRENCY || 1)
DefaultConcurrency == 1

----------------------------------------------------------------------------
(* Values *)

None == "undefined"      \* JavaScript undefined, for string-valued fields
Null == "null"           \* readTranscriptIfExists: no such file
NoTime == -1             \* an undefined timestamp or duration

\* urls a create request may carry, with the hostname new URL(u) extracts
Urls == { "https://www.tiktok.com/v1", "https://evil.example/v1" }

hostname(u) ==
    CASE u = "https://www.tiktok.com/v1" -> "www.tiktok.com"
      [] u = "https://www.tiktok.com/v2" -> "www.tiktok.com"
      [] u = "https://evil.example/v1" -> "evil.example"
      [] OTHER -> ""

\* ALLOWED_TIKTOK_HOSTS default; host === h || host.endsWith('.' + h)
TikTokHosts == { "tiktok.com", "www.tiktok.com", "vt.tiktok.com", "vm.tiktok.com" }

isValidTikTokUrl(u) == hostname(u) \in TikTokHosts

\* fileKeys of uploads a create request may name (none: the jobs checked are url jobs)
FileKeys == {}

\* the sources a well-formed create request may name
RequestSources ==
    { [type |-> "tiktok", key |-> u] : u \in Urls }
        \cup { [type |-> "upload", key |-> k] : k \in FileKeys }

\* the sources a stored job can have
Sources == { s \in RequestSources : s.type = "tiktok" => isValidTikTokUrl(s.key) }

\* createHash('sha1').update(s).digest('hex'): distinct urls give distinct digests
sha1(s) ==
    CASE s = "https://www.tiktok.com/v1" -> "5d41402a"
      [] s = "https://www.tiktok.com/v2" -> "e4da3b7f"
      [] s = "https://evil.example/v1" -> "7c211433"
      [] OTHER -> "da39a3ee"

tokenFor(src) ==
    IF src.type = "upload" THEN src.key
    ELSE IF src.type = "tiktok" THEN sha1(src.key)
    ELSE ""

Tokens == { tokenFor(s) : s \in Sources }

\* contents a transcript file can have (formatTranscript yields '' for no segments)
Texts == { "", "[00:00-00:02] hi" }

MODEL_ID == "gemini-2.5-pro"

NoTranscripts == [present |-> FALSE, A |-> "", B |-> ""]
NoMetrics == [present |-> FALSE, startedAt |-> NoTime, completedAt |-> NoTime,
              durationMs |-> NoTime]
NoMeta == [present |-> FALSE, stage |-> None, t0 |-> NoTime, t1 |-> NoTime]

Metrics(s, c, d) == [present |-> TRUE, startedAt |-> s, completedAt |-> c, durationMs |-> d]
Meta(stage, t0, t1) == [present |-> TRUE, stage |-> stage, t0 |-> t0, t1 |-> t1]
Transcripts(ta, tb) == [present |-> TRUE, A |-> ta, B |-> tb]

\* JavaScript truthiness of a string-or-null value
Truthy(s) == s # Null /\ s # None /\ s # ""

\* s || dflt
OrElse(s, dflt) == IF Truthy(s) THEN s ELSE dflt

\* messages of the errors compareViaSingleAnalyzer can reject with
ErrorMessages ==
    { "TIMEOUT", "AbortError: The operation was aborted", "PARSE_FAIL", "UNKNOWN", "" }

\* the test without its i flag and its TIMEOUT alternative: 'TIMEOUT' is not matched
isTimeoutCaseSensitive(msg) == msg \in { "AbortError: The operation was aborted" }

\* /timeout|timed out|abort|TIMEOUT/i.test(msg)
isTimeout(msg) ==
    msg \in { "TIMEOUT", "AbortError: The operation was aborted" }

\* /zod|schema|validation|PARSE_FAIL/i.test(msg)
isSchema(msg) == msg \in { "PARSE_FAIL" }

\* runJob's catch block: the errorCode and stage for an error message
classify(msg) ==
    IF isTimeout(msg) THEN [errorCode |-> "TIMEOUT", stage |-> "error_timeout"]
    ELSE IF isSchema(msg) THEN [errorCode |-> "SCHEMA", stage |-> "error_schema"]
    ELSE [errorCode |-> "UNKNOWN", stage |-> "error_unknown"]

\* the rejection of withTimeout's timer: new Error('TIMEOUT')
TimeoutMessage == "TIMEOUT"

----------------------------------------------------------------------------
(* single-analyzer.ts: the fusion of two single-video analyses into a TabsResult *)

\* a recommendation of parsed_data: solution, problem, examples.oral[0].text
Recommendations ==
    { [solution |-> "cut the intro", problem |-> "slow hook", oral |-> ""],
      [solution |-> "", problem |-> "no cta", oral |-> ""],
      [solution |-> "", problem |-> "", oral |-> "buy now"],
      [solution |-> "", problem |-> "", oral |-> ""] }

\* pd?.recommendations: an array of recommendations, or anything else
RecommendationFields ==
    { [isArray |-> FALSE, items |-> <<>>] }
        \cup { [isArray |-> TRUE, items |-> l] :
                   l \in UNION { [1..n -> Recommendations] : n \in 0..MaxRecs } }

\* an entry of pd.timeline with the fields pairTimeline reads; {} when none
TimelineEntry(phase, severity, hint) ==
    [phase |-> phase, severity |-> severity, fix_hint |-> hint]
EmptyEntry == TimelineEntry(None, None, None)

\* pd?.timeline: an array of entries, or anything else
TimelineFields ==
    { [isArray |-> FALSE, items |-> <<>>],
      [isArray |-> TRUE,
       items |-> << TimelineEntry("Hook", "high", "open on the product"),
                    TimelineEntry("cta", None, None) >>] }

\* parsed_data of one side, as far as buildActions and pairTimeline read it
ParsedData == [recommendations : RecommendationFields, timeline : TimelineFields]

\* Array.isArray(x) ? x : []
arrayOrEmpty(field) == IF field.isArray THEN field.items ELSE <<>>

\* r?.solution || r?.problem || r?.examples?.oral?.[0]?.text || ''
pick(r) == OrElse(r.solution, OrElse(r.problem, OrElse(r.oral, "")))

\* for (const r of recs) if (arr.length < 3 && pick(r)) arr.push(pick(r))
RECURSIVE pushPicks(_, _)
pushPicks(arr, recs) ==
    IF recs = <<>> THEN arr
    ELSE pushPicks(IF Len(arr) < 3 /\ Truthy(pick(Head(recs)))
                   THEN Append(arr, pick(Head(recs))) ELSE arr,
                   Tail(recs))

\* while (arr.length < 3) arr.push('')
RECURSIVE padActions(_)
padActions(arr) == IF Len(arr) < 3 THEN padActions(Append(arr, "")) ELSE arr

\* the picks of both sides as they come: no limit of 3, no padding
buildActionsAllPicks(pa, pb) ==
    SelectSeq([i \in 1..Len(arrayOrEmpty(pa.recommendations) \o arrayOrEmpty(pb.recommendations))
                  |-> pick((arrayOrEmpty(pa.recommendations)
                                \o arrayOrEmpty(pb.recommendations))[i])],
              Truthy)

\* buildActions(pa, pb): [arr[0], arr[1], arr[2]]
buildActions(pa, pb) ==
    LET arr == padActions(pushPicks(pushPicks(<<>>, arrayOrEmpty(pa.recommendations)),
                                    arrayOrEmpty(pb.recommendations)))
    IN << arr[1], arr[2], arr[3] >>

\* (x.phase || '').toLowerCase() on the phases above
toLowerCase(str) ==
    CASE str = "Hook" -> "hook"
      [] str = None -> ""
      [] OTHER -> str

\* list.find((x) => (x.phase || '').toLowerCase() === phase) || {}
findByPhase(list, phase) ==
    LET hits == SelectSeq(list, LAMBDA x : toLowerCase(x.phase) = phase)
    IN IF hits = <<>> THEN EmptyEntry ELSE Head(hits)

\* pairTimeline(pa, pb): one pair per phase of ['hook', 'trust', 'desire', 'cta'],
\* then slice(0, 8)
pairTimeline(pa, pb) ==
    LET ph == << "hook", "trust", "desire", "cta" >>
        out == [i \in 1..Len(ph) |->
                   LET a == findByPhase(arrayOrEmpty(pa.timeline), ph[i])
                       b == findByPhase(arrayOrEmpty(pb.timeline), ph[i])
                   IN [A |-> a, B |-> b,
                       gap |-> [aspect |-> ph[i],
                                severity |-> OrElse(a.severity, OrElse(b.severity, "low")),
                                hint |-> OrElse(a.fix_hint, OrElse(b.fix_hint, ""))]]]
    IN SubSeq(out, 1, IF Len(out) < 8 THEN Len(out) ELSE 8)

\* mapSinglesToTabs(pa, pb, fab): the actions and the timeline of the TabsResult
mapSinglesToTabs(pa, pb) ==
    [actions |-> buildActions(pa, pb), timeline |-> pairTimeline(pa, pb)]

\* parsed_data || {} of a response without parsed_data, and an analysis with more
\* usable recommendations than places
PoorData ==
    [recommendations |-> [isArray |-> FALSE, items |-> <<>>],
     timeline |-> [isArray |-> FALSE, items |-> <<>>]]
RichData ==
    [recommendations |->
         [isArray |-> TRUE,
          items |-> << [solution |-> "cut the intro", problem |-> "slow hook", oral |-> ""],
                       [solution |-> "", problem |-> "no cta", oral |-> ""] >>],
     timeline |->
         [isArray |-> TRUE,
          items |-> << TimelineEntry("Hook", "high", "open on the product"),
                       TimelineEntry("cta", None, None) >>]]

\* the parsed data of A and B the analyzer answers a job with
AnalyzerData == { <<PoorData, PoorData>>, <<RichData, RichData>> }

NoResult ==
    [present |-> FALSE, base |-> "", actions |-> <<>>, timeline |-> <<>>,
     transcripts |-> NoTranscripts]

\* what compareViaSingleAnalyzer resolves with: a TabsResult, without transcripts
TabsResult(pa, pb) ==
    [present |-> TRUE, base |-> "tabs",
     actions |-> mapSinglesToTabs(pa, pb).actions,
     timeline |-> mapSinglesToTabs(pa, pb).timeline,
     transcripts |-> NoTranscripts]

----------------------------------------------------------------------------
(* Values of the direct compare servers (two-video-compare.ts, its v2) *)

\* const MAX_SIZE = 50 * 1024 * 1024
MAX_SIZE == 50 * 1024 * 1024

\* the urls a compare request may carry
CompareUrls ==
    { "https://www.tiktok.com/v1", "https://www.tiktok.com/v2", "https://evil.example/v1" }

\* TIKTOK_RE = /^https?:\/\/([a-z0-9-]+\.)*tiktok\.com\/.+/i, on the urls above
matchesTIKTOK_RE(u) ==
    hostname(u) \in { "tiktok.com", "www.tiktok.com", "vt.tiktok.com", "vm.tiktok.com" }

\* hash(s): crypto.createHash('sha1').update(s).digest('hex')
hash(s) == sha1(s)

\* the cache tokens of the urls that pass validation
CacheTokens == { hash(u) : u \in { v \in CompareUrls : matchesTIKTOK_RE(v) } }

\* no file at a cache path
NoFile == NoTime

\* getEstimatedSize: null when yt-dlp reports no finite filesize
NoEstimate == NoTime

\* a metadata probe that has not returned yet
Pending == NoTime - 1

\* estimates a probe can report, and sizes a download can have on disk
EstimatedSizes == { NoEstimate, MAX_SIZE, MAX_SIZE + 1 }
ActualSizes == { MAX_SIZE, MAX_SIZE + 1 }

\* messages of the errors the external tools fail with
ToolErrors == { "TIMEOUT", "Command failed" }

\* texts the model returns: valid output, prose, JSON that fails the schema
ModelTexts == { "{valid}", "not json", "{other}" }

\* messages of the errors callModel rejects with
ModelErrors == { "503 Service Unavailable", "400 Bad Request", "The operation was aborted" }

Sides == { "A", "B" }

\* the bodies of the compare requests: A and B name the same video or two videos
CompareBodies ==
    { [typed |-> t, A |-> "https://www.tiktok.com/v1", B |-> b] :
          t \in BOOLEAN, b \in CompareUrls }
        \cup { [typed |-> TRUE, A |-> "https://evil.example/v1",
                B |-> "https://www.tiktok.com/v1"] }

----------------------------------------------------------------------------
(* The job store *)

JobIds == 1..MaxJobs

\* store.getJob(id) finds a record
hasJob(js, id) == id \in DOMAIN js

\* Object.assign(j, patch)
Assign(j, patch) ==
    [f \in DOMAIN j |-> IF f \in DOMAIN patch THEN patch[f] ELSE j[f]]

\* store.updateJob(id, patch)
updateJob(js, id, patch) ==
    IF id \in DOMAIN js THEN [js EXCEPT ![id] = Assign(@, patch)] ELSE js

\* store.createJob(input): the record pushed
createJob(id, input, t) ==
    [ id |-> id, status |-> "queued", createdAt |-> t,
      collectionId |-> input.collectionId, fabVersionId |-> input.fabVersionId,
      a |-> input.a, b |-> input.b,
      errorCode |-> None, model |-> None, metrics |-> NoMetrics, meta |-> NoMeta,
      result |-> NoResult, completedAt |-> NoTime ]

\* no function of the libraries has been called yet
NoCall == [fn |-> "none"]

\* the record of the last step
Op(op, job, code, err) == [op |-> op, job |-> job, code |-> code, err |-> err]

----------------------------------------------------------------------------
(* Initial state: the module-level state of store.ts and asr.ts at start-up *)

\* with the environment env = <<ASR_ENABLED, ASR_CONCURRENCY>>
InitWith(enabled, limits) ==
    /\ jobs = <<>>
    /\ collections = {}
    /\ fabVersions = {}
    /\ runs = <<>>
    /\ polls = <<>>
    /\ probes = [s \in Sources |-> 0]
    /\ transcriptFile = [t \in Tokens \cup CacheTokens |-> Null]
    /\ ASR_ENABLED \in enabled
    /\ ASR_CONCURRENCY \in limits
    /\ active = 0
    /\ queue = <<>>
    /\ executing = {}
    /\ wakeups = 0
    /\ settled = <<>>
    /\ now = 0
    /\ requests = <<>>
    /\ rawFile = [t \in CacheTokens |-> NoFile]
    /\ sanFile = [t \in CacheTokens |-> "absent"]
    /\ call = NoCall
    /\ value = None
    /\ last = Op("init", 0, 0, "")

\* the job pipeline with the default concurrency limit, transcription on or off
Init == InitWith(BOOLEAN, {DefaultConcurrency})

\* the worker pool under every configured limit
InitAsr == InitWith(BOOLEAN, 0..MaxConcurrency)

\* new Date() moves on between callbacks
Tick ==
    /\ now < MaxClock
    /\ now' = now + 1
    /\ last' = Op("tick", 0, 0, "")
    /\ UNCHANGED <<jobVars, asrVars, envVars, transcriptFile, cmpVars, pureVars>>

----------------------------------------------------------------------------
(* POST /api/fab/confirm: creates the collection and a FAB version *)

ConfirmFab ==
    /\ collections = {}
    /\ collections' = {"col_1"}
    /\ fabVersions' = {"fab_1"}
    /\ last' = Op("confirmFab", 0, 200, "")
    /\ UNCHANGED <<jobs, runs, polls, probes, asrVars, envVars, transcriptFile, now, cmpVars, pureVars>>

----------------------------------------------------------------------------
(* POST /api/jobs: create a job and defer its first run *)

\* request bodies: wellFormed is the outcome of CreateJobSchema.safeParse
CreateRequests ==
    [ wellFormed : BOOLEAN, collectionId : {"col_1"}, fabVersionId : {"fab_1"},
      a : RequestSources, b : RequestSources ]

\* the validation with the host check of B left out
createRejectionChecksAOnly(req) ==
    IF ~req.wellFormed THEN "INVALID_REQUEST"
    ELSE IF req.a.type = "tiktok" /\ ~isValidTikTokUrl(req.a.key) THEN "INVALID_URL"
    ELSE None

\* the errorCode of the 400 response of a create request, or None when it passes
createRejection(req) ==
    IF ~req.wellFormed THEN "INVALID_REQUEST"
    ELSE IF req.a.type = "tiktok" /\ ~isValidTikTokUrl(req.a.key) THEN "INVALID_URL"
    ELSE IF req.b.type = "tiktok" /\ ~isValidTikTokUrl(req.b.key) THEN "INVALID_URL"
    ELSE None

\* a fresh run record: setTimeout(() => runJob(id), 0) is pending.  orphan tells
\* that runJob has returned while its analyzer call is still pending
NewRun(id) ==
    [job |-> id, pc |-> "timer", startedAt |-> NoTime, completedAt |-> NoTime,
     result |-> NoResult, ta |-> Null, orphan |-> FALSE]

\* a run that has returned
EndedRun(id) == [NewRun(id) EXCEPT !.pc = "end"]

CreateJob(req) ==
    /\ IF createRejection(req) # None
       THEN /\ last' = Op("create", 0, 400, createRejection(req))
            /\ UNCHANGED <<jobs, runs>>
       ELSE /\ Len(jobs) < MaxJobs
            /\ Len(runs) < MaxRuns
            /\ jobs' = Append(jobs, createJob(Len(jobs) + 1, req, now))
            /\ runs' = Append(runs, NewRun(Len(jobs) + 1))
            /\ last' = Op("create", Len(jobs) + 1, 200, "")
    /\ UNCHANGED <<collections, fabVersions, polls, probes, asrVars, envVars,
                   transcriptFile, now, cmpVars, pureVars>>

----------------------------------------------------------------------------
(* POST /api/jobs/:id/retry *)

\* the guard comparing with the wrong state
retryRejectedWhenQueued(job) == job.status = "queued"

\* the guard of the retry route: if (job.status === 'processing') -> 409
retryRejected(job) == job.status = "processing"

\* the patch without completedAt: a retried job keeps the completedAt of its last run
RetryPatchKeepsCompletedAt == [status |-> "queued", errorCode |-> None, result |-> NoResult]

\* the patch re-targeting the job to another FAB version
RetryPatchOtherFab ==
    [status |-> "queued", errorCode |-> None, result |-> NoResult, completedAt |-> NoTime,
     fabVersionId |-> "fab_2"]

\* the patch of the retry route
RetryPatch ==
    [status |-> "queued", errorCode |-> None, result |-> NoResult, completedAt |-> NoTime]

\* the route without its NOT_FOUND answer: the reset and the run are scheduled for
\* whatever id is named
RetryWithoutLookup(id) ==
    /\ IF hasJob(jobs, id) /\ retryRejected(jobs[id])
       THEN /\ last' = Op("retry", id, 409, "ALREADY_RUNNING")
            /\ UNCHANGED <<jobs, runs>>
       ELSE /\ Len(runs) < MaxRuns
            /\ jobs' = updateJob(jobs, id, RetryPatch)
            /\ runs' = Append(runs, NewRun(id))
            /\ last' = Op("retry", id, 200, "")
    /\ UNCHANGED <<collections, fabVersions, polls, probes, asrVars, envVars,
                   transcriptFile, now, cmpVars, pureVars>>

Retry(id) ==
    /\ IF ~hasJob(jobs, id)
       THEN /\ last' = Op("retry", id, 404, "NOT_FOUND")
            /\ UNCHANGED <<jobs, runs>>
       ELSE IF retryRejected(jobs[id])
       THEN /\ last' = Op("retry", id, 409, "ALREADY_RUNNING")
            /\ UNCHANGED <<jobs, runs>>
       ELSE /\ Len(runs) < MaxRuns
            /\ jobs' = updateJob(jobs, id, RetryPatch)
            /\ runs' = Append(runs, NewRun(id))
            /\ last' = Op("retry", id, 200, "")
    /\ UNCHANGED <<collections, fabVersions, polls, probes, asrVars, envVars,
                   transcriptFile, now, cmpVars, pureVars>>

----------------------------------------------------------------------------
(* runJob(jobId): the orchestrator *)

\* the first updateJob of runJob
StartPatch(t) ==
    [status |-> "processing", errorCode |-> None, result |-> NoResult,
     model |-> MODEL_ID, metrics |-> Metrics(t, NoTime, NoTime),
     meta |-> Meta("preparing", t, NoTime)]

\* the updateJob of the missing fab / collection branch
MissingFabPatch == [status |-> "error", errorCode |-> "UNKNOWN"]

\* the success update with the stage telling whether transcripts were attached
DonePatchStageByTranscripts(r, ta, tb) ==
    [status |-> "done",
     result |-> IF Truthy(ta) \/ Truthy(tb)
                THEN [r.result EXCEPT !.transcripts =
                          Transcripts(OrElse(ta, ""), OrElse(tb, ""))]
                ELSE r.result,
     completedAt |-> r.completedAt,
     metrics |-> Metrics(r.startedAt, r.completedAt, r.completedAt - r.startedAt),
     meta |-> Meta(IF Truthy(ta) \/ Truthy(tb) THEN "done_transcribed" ELSE "done",
                   NoTime, r.completedAt)]

\* the success update without its result field
DonePatchWithoutResult(r, ta, tb) ==
    [status |-> "done",
     completedAt |-> r.completedAt,
     metrics |-> Metrics(r.startedAt, r.completedAt, r.completedAt - r.startedAt),
     meta |-> Meta("done", NoTime, r.completedAt)]

\* the updateJob of the success path; transcripts attached when either read was non-empty
DonePatch(r, ta, tb) ==
    [status |-> "done",
     result |-> IF Truthy(ta) \/ Truthy(tb)
                THEN [r.result EXCEPT !.transcripts =
                          Transcripts(OrElse(ta, ""), OrElse(tb, ""))]
                ELSE r.result,
     completedAt |-> r.completedAt,
     metrics |-> Metrics(r.startedAt, r.completedAt, r.completedAt - r.startedAt),
     meta |-> Meta("done", NoTime, r.completedAt)]

\* the updateJob of the catch block, for an error with message msg caught at time t;
\* startedAt is read back from the store: prev?.metrics?.startedAt || now
ErrorPatch(prev, msg, t) ==
    LET startedAt == IF prev.metrics.present /\ prev.metrics.startedAt # NoTime
                     THEN prev.metrics.startedAt ELSE t
    IN [status |-> "error",
        errorCode |-> classify(msg).errorCode,
        metrics |-> Metrics(startedAt, t, t - startedAt),
        meta |-> Meta(classify(msg).stage, NoTime, NoTime)]

\* the setTimeout(0) callback: runJob from its entry to the await of the analyzer call
RunStart(i) ==
    /\ i \in DOMAIN runs
    /\ runs[i].pc = "timer"
    /\ LET id == runs[i].job
           started == updateJob(jobs, id, StartPatch(now))
       IN IF ~hasJob(jobs, id)
          THEN /\ runs' = [runs EXCEPT ![i] = EndedRun(id)]
               /\ last' = Op("runStart", id, 0, "")
               /\ UNCHANGED <<jobs, probes>>
          ELSE IF jobs[id].fabVersionId \notin fabVersions
                    \/ jobs[id].collectionId \notin collections
          THEN /\ jobs' = updateJob(started, id, MissingFabPatch)
               /\ runs' = [runs EXCEPT ![i] = EndedRun(id)]
               /\ last' = Op("runStartNoFab", id, 0, "")
               /\ UNCHANGED probes
          ELSE /\ jobs' = updateJob(started, id,
                                    [meta |-> Meta("calling_model", now, NoTime)])
               /\ runs' = [runs EXCEPT ![i] = [@ EXCEPT !.pc = "calling",
                                                        !.startedAt = now]]
               \* tryScheduleAsrForSource(job.a), (job.b): each runs to its first await
               /\ probes' = [s \in Sources |->
                               probes[s] + (IF s = jobs[id].a THEN 1 ELSE 0)
                                         + (IF s = jobs[id].b THEN 1 ELSE 0)]
               /\ last' = Op("runStart", id, 0, "")
    /\ UNCHANGED <<collections, fabVersions, polls, asrVars, envVars, transcriptFile, now, cmpVars, pureVars>>

\* the catch block of runJob
RunCatch(i, op, msg) ==
    LET id == runs[i].job
    IN /\ jobs' = updateJob(jobs, id, ErrorPatch(jobs[id], msg, now))
       /\ runs' = [runs EXCEPT ![i] = [EndedRun(id) EXCEPT !.orphan = (op = "runTimeout")]]
       /\ last' = Op(op, id, 0, msg)

\* the step after the analyzer call writing the stage of the run's start again
RunAnalyzerResolveStageBack(i, pa, pb) ==
    /\ i \in DOMAIN runs
    /\ runs[i].pc = "calling"
    /\ LET id == runs[i].job
       IN /\ jobs' = updateJob(jobs, id, [meta |-> Meta("preparing", now, NoTime)])
          /\ runs' = [runs EXCEPT ![i] = [@ EXCEPT !.pc = "readA", !.completedAt = now,
                                                   !.result = TabsResult(pa, pb)]]
          /\ last' = Op("runParsing", id, 0, "")
    /\ UNCHANGED <<collections, fabVersions, polls, probes, asrVars, envVars,
                   transcriptFile, now, cmpVars, pureVars>>

\* compareViaSingleAnalyzer resolves before the timer: runJob goes on to the first
\* transcript read
RunAnalyzerResolve(i, pa, pb) ==
    /\ i \in DOMAIN runs
    /\ runs[i].pc = "calling"
    /\ LET id == runs[i].job
       IN /\ jobs' = updateJob(jobs, id, [meta |-> Meta("parsing", now, NoTime)])
          /\ runs' = [runs EXCEPT ![i] = [@ EXCEPT !.pc = "readA", !.completedAt = now,
                                                   !.result = TabsResult(pa, pb)]]
          /\ last' = Op("runParsing", id, 0, "")
    /\ UNCHANGED <<collections, fabVersions, polls, probes, asrVars, envVars,
                   transcriptFile, now, cmpVars, pureVars>>

\* compareViaSingleAnalyzer rejects before the timer
RunAnalyzerReject(i, msg) ==
    /\ i \in DOMAIN runs
    /\ runs[i].pc = "calling"
    /\ RunCatch(i, "runError", msg)
    /\ UNCHANGED <<collections, fabVersions, polls, probes, asrVars, envVars,
                   transcriptFile, now, cmpVars, pureVars>>

\* withTimeout without its timer
withTimeoutNeverFires(r) == FALSE

\* withTimeout: the timer of REQUEST_TIMEOUT_MS fires while the call is pending
withTimeoutFires(r) == r.pc = "calling"

RunTimeout(i) ==
    /\ i \in DOMAIN runs
    /\ withTimeoutFires(runs[i])
    /\ RunCatch(i, "runTimeout", TimeoutMessage)
    /\ UNCHANGED <<collections, fabVersions, polls, probes, asrVars, envVars,
                   transcriptFile, now, cmpVars, pureVars>>

\* the late completion taken for the result of the run: the success path of runJob
\* writes the job again
RunAnalyzerLateWrites(i, ok) ==
    /\ i \in DOMAIN runs
    /\ runs[i].pc = "end"
    /\ runs[i].orphan
    /\ jobs' = updateJob(jobs, runs[i].job,
                         IF ok THEN [status |-> "done", completedAt |-> now]
                               ELSE [status |-> "error", errorCode |-> "UNKNOWN"])
    /\ runs' = [runs EXCEPT ![i] = EndedRun(runs[i].job)]
    /\ last' = Op("runLate", runs[i].job, 0, "")
    /\ UNCHANGED <<collections, fabVersions, polls, probes, asrVars, envVars,
                   transcriptFile, now, cmpVars, pureVars>>

\* compareViaSingleAnalyzer settles after the timer has rejected the promise of
\* withTimeout: its handlers clear the timer and call resolve or reject of a promise
\* that is settled already, and runJob has no continuation left
RunAnalyzerLate(i, ok) ==
    /\ i \in DOMAIN runs
    /\ runs[i].pc = "end"
    /\ runs[i].orphan
    /\ runs' = [runs EXCEPT ![i] = EndedRun(runs[i].job)]
    /\ last' = Op("runLate", runs[i].job, 0, "")
    /\ UNCHANGED <<jobs, collections, fabVersions, polls, probes, asrVars, envVars,
                   transcriptFile, now, cmpVars, pureVars>>

\* readTranscriptIfExists(<token>.transcript.txt)
readTranscriptIfExists(tok) == transcriptFile[tok]

\* the read of A's transcript returns
RunReadA(i) ==
    /\ i \in DOMAIN runs
    /\ runs[i].pc = "readA"
    /\ runs' = [runs EXCEPT ![i] =
                   [@ EXCEPT !.pc = "readB",
                             !.ta = readTranscriptIfExists(tokenFor(jobs[runs[i].job].a))]]
    /\ last' = Op("runReadA", runs[i].job, 0, "")
    /\ UNCHANGED <<jobs, collections, fabVersions, polls, probes, asrVars, envVars,
                   transcriptFile, now, cmpVars, pureVars>>

\* the read of B's transcript returns: the terminal write of the success path
RunReadB(i) ==
    /\ i \in DOMAIN runs
    /\ runs[i].pc = "readB"
    /\ LET id == runs[i].job
           tb == readTranscriptIfExists(tokenFor(jobs[id].b))
       IN /\ jobs' = updateJob(jobs, id, DonePatch(runs[i], runs[i].ta, tb))
          /\ runs' = [runs EXCEPT ![i] = EndedRun(id)]
          /\ last' = Op("runDone", id, 0, "")
    /\ UNCHANGED <<collections, fabVersions, polls, probes, asrVars, envVars,
                   transcriptFile, now, cmpVars, pureVars>>

----------------------------------------------------------------------------
(* GET /api/jobs/:id: poll, merging transcripts that have appeared since *)

NewPoll(id, pc, wantB) == [job |-> id, pc |-> pc, wantB |-> wantB, ta |-> Null]

EndedPoll(id) == NewPoll(id, "end", FALSE)

\* wantA / wantB: the token exists and the result has no transcript for the side yet
want(tok, tr, side) == tok # "" /\ (~tr.present \/ ~Truthy(tr[side]))

\* lines 38-42: the merge and the store update, evaluated on the live job record;
\* reading .transcripts of an undefined result throws, which the handler swallows
pollMerge(js, id, ta, tb) ==
    IF ~(Truthy(ta) \/ Truthy(tb)) THEN js
    ELSE IF ~js[id].result.present THEN js
    ELSE LET prev == js[id].result.transcripts
             merged == Transcripts(OrElse(ta, OrElse(prev.A, "")),
                                   OrElse(tb, OrElse(prev.B, "")))
         IN updateJob(js, id, [result |-> [js[id].result EXCEPT !.transcripts = merged]])

\* the handler from its entry to its first transcript read, or to its response
PollStart(id) ==
    /\ IF ~hasJob(jobs, id)
       THEN /\ last' = Op("poll", id, 404, "NOT_FOUND")
            /\ UNCHANGED polls
       ELSE IF ~jobs[id].result.present
       THEN /\ last' = Op("poll", id, 200, "")
            /\ UNCHANGED polls
       ELSE LET tr == jobs[id].result.transcripts
                wantA == want(tokenFor(jobs[id].a), tr, "A")
                wantB == want(tokenFor(jobs[id].b), tr, "B")
            IN IF wantA \/ wantB
               THEN /\ Len(polls) < MaxPolls
                    /\ polls' = Append(polls,
                          NewPoll(id, IF wantA THEN "readA" ELSE "readB", wantB))
                    /\ last' = Op("pollStart", id, 0, "")
               ELSE /\ last' = Op("poll", id, 200, "")
                    /\ UNCHANGED polls
    /\ UNCHANGED <<jobs, collections, fabVersions, runs, probes, asrVars, envVars,
                   transcriptFile, now, cmpVars, pureVars>>

\* the read of A's transcript returns
PollReadA(k) ==
    /\ k \in DOMAIN polls
    /\ polls[k].pc = "readA"
    /\ LET id == polls[k].job
           ta == readTranscriptIfExists(tokenFor(jobs[id].a))
       IN IF polls[k].wantB
          THEN /\ polls' = [polls EXCEPT ![k] = [@ EXCEPT !.pc = "readB", !.ta = ta]]
               /\ last' = Op("pollReadA", id, 0, "")
               /\ UNCHANGED jobs
          ELSE /\ jobs' = pollMerge(jobs, id, ta, Null)
               /\ polls' = [polls EXCEPT ![k] = EndedPoll(id)]
               /\ last' = Op("poll", id, 200, "")
    /\ UNCHANGED <<collections, fabVersions, runs, probes, asrVars, envVars,
                   transcriptFile, now, cmpVars, pureVars>>

\* the read of B's transcript returns
PollReadB(k) ==
    /\ k \in DOMAIN polls
    /\ polls[k].pc = "readB"
    /\ LET id == polls[k].job
           tb == readTranscriptIfExists(tokenFor(jobs[id].b))
       IN /\ jobs' = pollMerge(jobs, id, polls[k].ta, tb)
          /\ polls' = [polls EXCEPT ![k] = EndedPoll(id)]
          /\ last' = Op("poll", id, 200, "")
    /\ UNCHANGED <<collections, fabVersions, runs, probes, asrVars, envVars,
                   transcriptFile, now, cmpVars, pureVars>>

----------------------------------------------------------------------------
(* asr.ts: the transcription worker pool *)

\* the numbers of the transcription jobs, in the order scheduleASR accepted them
AsrIds == 1..(IF MaxRunAsrJobs > MaxAsrJobs THEN MaxRunAsrJobs ELSE MaxAsrJobs)

\* scheduleASR without its ASR_ENABLED test: the job is queued whatever the flag
scheduleASRIgnoresFlag(tok) ==
    /\ queue' = Append(queue, [id |-> Len(settled) + 1, tok |-> tok])
    /\ settled' = Append(settled, "pending")
    /\ wakeups' = wakeups + 1
    /\ last' = Op("scheduleASR", 0, 0, "")
    /\ UNCHANGED <<active, executing>>

\* scheduleASR(videoPath, outWav, outTxt) for the files of token tok
scheduleASR(tok) ==
    IF ~ASR_ENABLED
    THEN /\ last' = Op("scheduleASR", 0, 0, "asr_disabled")
         /\ UNCHANGED asrVars
    ELSE /\ queue' = Append(queue, [id |-> Len(settled) + 1, tok |-> tok])
         /\ settled' = Append(settled, "pending")
         /\ wakeups' = wakeups + 1
         /\ last' = Op("scheduleASR", 0, 0, "")
         /\ UNCHANGED <<active, executing>>

\* tryScheduleAsrForSource(src) resumes from its file checks: found tells whether
\* the upload file, or a sanitized copy of the url's video, exists
TryScheduleAsr(src, found) ==
    /\ probes[src] > 0
    /\ (found /\ ASR_ENABLED) => Len(settled) < MaxRunAsrJobs
    /\ probes' = [probes EXCEPT ![src] = @ - 1]
    /\ IF tokenFor(src) # "" /\ found
       THEN scheduleASR(tokenFor(src))
       ELSE /\ last' = Op("asrSkip", 0, 0, "")
            /\ UNCHANGED asrVars
    /\ UNCHANGED <<jobs, collections, fabVersions, runs, polls, envVars,
                   transcriptFile, now, cmpVars, pureVars>>

\* a caller outside runJob (handleCompare, for each side) calls scheduleASR
ScheduleASRCall(tok) ==
    /\ ASR_ENABLED => Len(settled) < MaxAsrJobs
    /\ scheduleASR(tok)
    /\ UNCHANGED <<jobVars, envVars, transcriptFile, now, cmpVars, pureVars>>

\* the guard off by one: if (active > ASR_CONCURRENCY) return
workerBusyOffByOne(a, limit) == a > limit

\* the guard of worker(): if (active >= ASR_CONCURRENCY) return
workerBusy(a, limit) == a >= limit

\* worker() taking the newest job: queue.pop() in place of queue.shift()
WorkerTakesLast ==
    /\ wakeups > 0
    /\ IF workerBusy(active, ASR_CONCURRENCY) \/ queue = <<>>
       THEN /\ wakeups' = wakeups - 1
            /\ last' = Op("workerIdle", 0, 0, "")
            /\ UNCHANGED <<active, queue, executing, settled>>
       ELSE /\ wakeups' = wakeups - 1
            /\ queue' = SubSeq(queue, 1, Len(queue) - 1)
            /\ active' = active + 1
            /\ executing' = executing \cup {[id |-> queue[Len(queue)].id,
                                             tok |-> queue[Len(queue)].tok,
                                             pc |-> "tools", text |-> ""]}
            /\ last' = Op("workerStart", 0, 0, "")
            /\ UNCHANGED settled
    /\ UNCHANGED <<jobVars, envVars, transcriptFile, now, cmpVars, pureVars>>

\* a setImmediate(worker) callback: worker() from its entry to its first await
Worker ==
    /\ wakeups > 0
    /\ IF workerBusy(active, ASR_CONCURRENCY) \/ queue = <<>>
       THEN /\ wakeups' = wakeups - 1
            /\ last' = Op("workerIdle", 0, 0, "")
            /\ UNCHANGED <<active, queue, executing, settled>>
       ELSE /\ wakeups' = wakeups - 1
            /\ queue' = Tail(queue)
            /\ active' = active + 1
            /\ executing' = executing \cup {[id |-> Head(queue).id, tok |-> Head(queue).tok,
                                             pc |-> "tools", text |-> ""]}
            /\ last' = Op("workerStart", 0, 0, "")
            /\ UNCHANGED settled
    /\ UNCHANGED <<jobVars, envVars, transcriptFile, now, cmpVars, pureVars>>

\* worker() with active-- in its catch as well as in its finally: a failed job is
\* counted down twice
workerFinallyDecrementsTwice(e, outcome) ==
    /\ executing' = executing \ {e}
    /\ settled' = [settled EXCEPT ![e.id] = outcome]
    /\ active' = IF outcome = "rejected" THEN active - 2 ELSE active - 1
    /\ wakeups' = wakeups + 1
    /\ UNCHANGED queue

\* worker() with active-- outside a finally: the counter is not decremented when the
\* job failed
workerFinallyLeaksOnFailure(e, outcome) ==
    /\ executing' = executing \ {e}
    /\ settled' = [settled EXCEPT ![e.id] = outcome]
    /\ active' = IF outcome = "rejected" THEN active ELSE active - 1
    /\ wakeups' = wakeups + 1
    /\ UNCHANGED queue

\* the catch / finally of worker(): settle the promise, active--, setImmediate(worker)
workerFinally(e, outcome) ==
    /\ executing' = executing \ {e}
    /\ settled' = [settled EXCEPT ![e.id] = outcome]
    /\ active' = active - 1
    /\ wakeups' = wakeups + 1
    /\ UNCHANGED queue

\* the executing transcription job number n
isExecuting(n) == \E e \in executing : e.id = n
execOf(n) == CHOOSE e \in executing : e.id = n

\* extractAudioWav, transcribeWavToJson and formatTranscript end: ok with the
\* formatted text, or one of them failed
WorkerTools(n, ok, text) ==
    /\ isExecuting(n)
    /\ execOf(n).pc = "tools"
    /\ LET e == execOf(n) IN
       IF ok
       THEN /\ executing' = (executing \ {e}) \cup {[e EXCEPT !.pc = "write", !.text = text]}
            /\ last' = Op("workerTools", 0, 0, "")
            /\ UNCHANGED <<active, queue, wakeups, settled>>
       ELSE /\ workerFinally(e, "rejected")
            /\ last' = Op("workerEnd", 0, 0, "failed")
    /\ UNCHANGED <<jobVars, envVars, transcriptFile, now, cmpVars, pureVars>>

\* fs.writeFile(job.outTxt, text) ends
WorkerWrite(n, ok) ==
    /\ isExecuting(n)
    /\ execOf(n).pc = "write"
    /\ LET e == execOf(n) IN
       IF ok
       THEN /\ transcriptFile' = [transcriptFile EXCEPT ![e.tok] = e.text]
            /\ workerFinally(e, "resolved")
            /\ last' = Op("workerEnd", 0, 0, "")
       ELSE /\ workerFinally(e, "rejected")
            /\ last' = Op("workerEnd", 0, 0, "failed")
            /\ UNCHANGED transcriptFile
    /\ UNCHANGED <<jobVars, envVars, now, cmpVars, pureVars>>

----------------------------------------------------------------------------
(* handleCompare(body): the direct compare pipeline.  Two servers implement it,  *)
(* two-video-compare.ts (v1) and its v2; both work in VIDEO_CACHE_DIR.  A call  *)
(* of ytMetadata, ytDownload, sanitize or uploadFileToGemini, with the attempts *)
(* it makes inside, is one operation here that ends well or fails.              *)

Versions == { "v1", "v2" }

\* an HTTP response as the client sees it: the status line and the JSON body
Response(status, code) ==
    [status |-> status, success |-> code = "success",
     errorCode |-> IF code = "success" THEN "" ELSE code]

\* the client still waits
NoResponse == [status |-> 0, success |-> FALSE, errorCode |-> ""]

\* the /compare2 handler of the server: res.statusCode = 200 and the JSON of what
\* handleCompare returned
serverResponse(code) == Response(200, code)

\* the proxy route after its fetch resolved: NextResponse.json(data), status 200
proxyForward(resp) == [resp EXCEPT !.status = 200]

\* the proxy route on AbortError: errorCode TIMEOUT with { status: 504 }
proxyTimeoutResponse == Response(504, "TIMEOUT")

\* a handleCompare execution that has passed validation and started both probes
NewRequest(ver, urlA, urlB) ==
    [ver |-> ver, url |-> [A |-> urlA, B |-> urlB], pc |-> "probe",
     est |-> [A |-> Pending, B |-> Pending],   \* szA, szB
     dl |-> {},                                \* sides whose ytDownload is running
     san |-> [A |-> "none", B |-> "none"],     \* ffmpeg of the side: spawned, writing
     up |-> [A |-> "none", B |-> "none"],      \* uploadFileToGemini of the side
     calls |-> 0,                              \* callModel invocations
     ta |-> Null,
     out |-> None,                             \* 'success' or the errorCode returned
     via |-> "direct",                         \* posted to the server, or via the proxy
     client |-> NoResponse]                    \* the response the client has received

tokenOf(req, side) == hash(req.url[side])

\* return { success: false, errorCode: code }, or the success response: of the
\* execution only the tool processes it has not awaited remain
Returned(req, code) ==
    [NewRequest(req.ver, req.url["A"], req.url["B"]) EXCEPT
        !.pc = "end", !.out = code, !.est = [A |-> NoEstimate, B |-> NoEstimate],
        !.dl = req.dl, !.san = req.san, !.via = req.via,
        !.client = IF req.client # NoResponse THEN req.client
                   ELSE IF req.via = "proxy" THEN proxyForward(serverResponse(code))
                   ELSE serverResponse(code)]

\* the step of a compare server (its requests tell what it did)
CompareOp == Op("compare", 0, 0, "")

\* the catch blocks of the probe and download stages of v1
stageErrorCode(msg, onTimeout, otherwise) ==
    IF msg \in { "TIMEOUT", "timed out" } THEN onTimeout ELSE otherwise

\* the outer catch: /TIMEOUT/i, /INVALID_URL|UNSUPPORTED_HOST/i, else UNKNOWN
compareErrorCode(msg) ==
    IF msg \in { "TIMEOUT", "TIMEOUT (model analysis)" } THEN "TIMEOUT"
    ELSE IF msg \in { "INVALID_URL", "UNSUPPORTED_HOST" } THEN "INVALID_URL"
    ELSE "UNKNOWN"

\* the guard with >= : an estimate of exactly MAX_SIZE is refused
tooLargeInclusive(sz) == sz # NoEstimate /\ sz # 0 /\ sz >= MAX_SIZE

\* (sz && sz > MAX_SIZE)
tooLarge(sz) == sz # NoEstimate /\ sz # 0 /\ sz > MAX_SIZE

\* Promise.race in place of Promise.all: the stage goes on when one side has ended
promiseRaceResolved(remaining) == TRUE

\* await Promise.all(...) resumes once none of its promises is pending
promiseAllResolved(remaining) == remaining = {}

\* existsSync(raw), existsSync(san)
rawExists(raw, tok) == raw[tok] # NoFile
sanExists(san, tok) == san[tok] # "absent"

\* 5) upload to Gemini Files: both uploads start together
enterUpload(req) ==
    [req EXCEPT !.pc = "upload", !.up = [A |-> "running", B |-> "running"]]

\* v1, 4) sanitize: if (!existsSync(sanB)) await sanitize(rawB, sanB)
enterSanitizeB(req, san) ==
    IF ~sanExists(san, tokenOf(req, "B"))
    THEN [req EXCEPT !.pc = "sanitize", !.san["B"] = "spawned"]
    ELSE enterUpload(req)

\* the sanitize stage from its cache checks to its first await
enterSanitize(req, san) ==
    IF req.ver = "v1"
    THEN IF ~sanExists(san, tokenOf(req, "A"))
         THEN [req EXCEPT !.pc = "sanitize", !.san["A"] = "spawned"]
         ELSE enterSanitizeB(req, san)
    ELSE LET need == { sd \in Sides : ~sanExists(san, tokenOf(req, sd)) }
         IN IF promiseAllResolved(need)
            THEN enterUpload(req)
            ELSE [req EXCEPT !.pc = "sanitize",
                             !.san = [sd \in Sides |->
                                         IF sd \in need THEN "spawned" ELSE "none"]]

\* v1, 3) download: if (!existsSync(rawB)) await ytDownload(urlB, rawB)
enterDownloadB(req, raw) ==
    IF ~rawExists(raw, tokenOf(req, "B"))
    THEN [req EXCEPT !.pc = "download", !.dl = {"B"}]
    ELSE [req EXCEPT !.pc = "stat", !.dl = {}]

\* the download stage from its cache checks to its first await
enterDownload(req, raw) ==
    IF req.ver = "v1"
    THEN IF ~rawExists(raw, tokenOf(req, "A"))
         THEN [req EXCEPT !.pc = "download", !.dl = {"A"}]
         ELSE enterDownloadB(req, raw)
    ELSE LET need == { sd \in Sides : ~rawExists(raw, tokenOf(req, sd)) }
         IN IF promiseAllResolved(need)
            THEN [req EXCEPT !.pc = "stat"]
            ELSE [req EXCEPT !.pc = "download", !.dl = need]

\* v1, 4.1) background ASR: scheduleASR(sanA, ...) and scheduleASR(sanB, ...), each
\* with .catch(() => {}), made when the request goes on to the upload stage
compareScheduleASR(before, after) ==
    IF before.pc # "upload" /\ after.pc = "upload" /\ after.ver = "v1" /\ ASR_ENABLED
    THEN /\ queue' = queue \o << [id |-> Len(settled) + 1, tok |-> tokenOf(after, "A")],
                                 [id |-> Len(settled) + 2, tok |-> tokenOf(after, "B")] >>
         /\ settled' = settled \o << "pending", "pending" >>
         /\ wakeups' = wakeups + 2
         /\ UNCHANGED <<active, executing>>
    ELSE UNCHANGED asrVars

\* POST /compare2: validation, then both metadata probes start
CompareStart(ver, body) ==
    /\ Len(requests) < MaxRequests
    /\ LET req == NewRequest(ver, body.A, body.B)
           next == IF ~body.typed THEN Returned(req, "UNKNOWN")
                   ELSE IF ~matchesTIKTOK_RE(body.A) \/ ~matchesTIKTOK_RE(body.B)
                   THEN Returned(req, "INVALID_URL")
                   ELSE req
       IN requests' = Append(requests, next)
    /\ last' = CompareOp
    /\ UNCHANGED <<pureVars, jobVars, asrVars, envVars, transcriptFile, now, rawFile, sanFile>>

\* ytMetadata of one side ends
ProbeEnd(r, side, ok, size, msg) ==
    /\ r \in DOMAIN requests
    /\ requests[r].pc = "probe"
    /\ requests[r].est[side] = Pending
    /\ LET req == requests[r]
           next ==
               IF ~ok
               THEN Returned(req, IF req.ver = "v1"
                                  THEN stageErrorCode(msg, "TIKTOK_BLOCKED", "FETCH_ERROR")
                                  ELSE compareErrorCode(msg))
               ELSE [req EXCEPT !.est[side] = size]
       IN requests' = [requests EXCEPT ![r] = next]
    /\ last' = CompareOp
    /\ UNCHANGED <<pureVars, jobVars, asrVars, envVars, transcriptFile, now, rawFile, sanFile>>

\* Promise.all of the probes has resolved: the size guard, then the download stage
\* up to its first await (the estimates are not read again by the control flow)
CompareGuard(r) ==
    /\ r \in DOMAIN requests
    /\ requests[r].pc = "probe"
    /\ promiseAllResolved({ sd \in Sides : requests[r].est[sd] = Pending })
    /\ LET req == requests[r]
           next ==
               IF tooLarge(req.est["A"]) \/ tooLarge(req.est["B"])
               THEN [Returned(req, "TOO_LARGE") EXCEPT !.est = req.est]
               ELSE enterDownload([req EXCEPT !.est = [A |-> NoEstimate, B |-> NoEstimate]],
                                  rawFile)
       IN requests' = [requests EXCEPT ![r] = next]
    /\ last' = CompareOp
    /\ UNCHANGED <<pureVars, jobVars, asrVars, envVars, transcriptFile, now, rawFile, sanFile>>

\* ytDownload of one side ends: yt-dlp has moved the complete file to the raw path,
\* or has failed; the handler goes on if it is still waiting for this stage
DownloadEnd(r, side, ok, size, msg) ==
    /\ r \in DOMAIN requests
    /\ side \in requests[r].dl
    /\ LET req == requests[r]
           raw == IF ok THEN [rawFile EXCEPT ![tokenOf(req, side)] = size] ELSE rawFile
           rest == [req EXCEPT !.dl = @ \ {side}]
           next ==
               IF req.pc # "download" THEN rest
               ELSE IF ~ok
               THEN Returned(rest, IF req.ver = "v1"
                                   THEN stageErrorCode(msg, "DOWNLOAD_TIMEOUT",
                                                       "DOWNLOAD_ERROR")
                                   ELSE compareErrorCode(msg))
               ELSE IF req.ver = "v1"
               THEN IF side = "A" THEN enterDownloadB(rest, raw)
                    ELSE [rest EXCEPT !.pc = "stat"]
               ELSE IF promiseAllResolved(rest.dl) THEN [rest EXCEPT !.pc = "stat"]
               ELSE rest
       IN /\ rawFile' = raw
          /\ requests' = [requests EXCEPT ![r] = next]
          /\ last' = CompareOp
    /\ UNCHANGED <<pureVars, jobVars, asrVars, envVars, transcriptFile, now, sanFile>>

\* 3.1) the stats of both raw files return: the actual-size check, then the sanitize
\* stage up to its first await
CompareStat(r) ==
    /\ r \in DOMAIN requests
    /\ requests[r].pc = "stat"
    /\ LET req == requests[r]
           stA == rawFile[tokenOf(req, "A")]
           stB == rawFile[tokenOf(req, "B")]
           next ==
               IF stA = NoFile \/ stB = NoFile THEN Returned(req, compareErrorCode("ENOENT"))
               ELSE IF stA > MAX_SIZE \/ stB > MAX_SIZE THEN Returned(req, "TOO_LARGE")
               ELSE enterSanitize(req, sanFile)
       IN /\ requests' = [requests EXCEPT ![r] = next]
          /\ compareScheduleASR(req, next)
          /\ last' = CompareOp
    /\ UNCHANGED <<pureVars, jobVars, envVars, transcriptFile, now, rawFile, sanFile>>

\* the ffmpeg process of one side opens its output (-y): the file at the san path is
\* created, or truncated, and is written from here on
SanitizeOpen(r, side) ==
    /\ r \in DOMAIN requests
    /\ requests[r].san[side] = "spawned"
    /\ requests' = [requests EXCEPT ![r].san[side] = "writing"]
    /\ sanFile' = [sanFile EXCEPT ![tokenOf(requests[r], side)] = "partial"]
    /\ last' = CompareOp
    /\ UNCHANGED <<pureVars, jobVars, asrVars, envVars, transcriptFile, now, rawFile>>

\* the ffmpeg process of one side exits: with the file complete, or with an error
\* that leaves what it has written
SanitizeEnd(r, side, ok, msg) ==
    /\ r \in DOMAIN requests
    /\ requests[r].san[side] \in (IF ok THEN {"writing"} ELSE {"spawned", "writing"})
    /\ LET req == requests[r]
           san == IF ok THEN [sanFile EXCEPT ![tokenOf(req, side)] = "complete"]
                  ELSE sanFile
           rest == [req EXCEPT !.san[side] = "none"]
           running == { sd \in Sides : rest.san[sd] # "none" }
           next ==
               IF req.pc # "sanitize" THEN rest
               ELSE IF ~ok THEN Returned(rest, compareErrorCode(msg))
               ELSE IF req.ver = "v1"
               THEN IF side = "A" THEN enterSanitizeB(rest, san) ELSE enterUpload(rest)
               ELSE IF promiseAllResolved(running) THEN enterUpload(rest)
               ELSE rest
       IN /\ sanFile' = san
          /\ requests' = [requests EXCEPT ![r] = next]
          /\ compareScheduleASR(req, next)
          /\ last' = CompareOp
    /\ UNCHANGED <<pureVars, jobVars, envVars, transcriptFile, now, rawFile>>

\* uploadFileToGemini of one side ends: the file has left PROCESSING for state;
\* when both are ACTIVE the model is called
UploadEnd(r, side, state) ==
    /\ r \in DOMAIN requests
    /\ requests[r].pc = "upload"
    /\ requests[r].up[side] = "running"
    /\ LET req == requests[r]
           got == [req EXCEPT !.up[side] = "active"]
           pending == { sd \in Sides : got.up[sd] = "running" }
           next ==
               IF state # "ACTIVE"
               THEN Returned(req, compareErrorCode("File upload failed with state: FAILED"))
               ELSE IF promiseAllResolved(pending)
               THEN [got EXCEPT !.pc = "model", !.calls = 1]
               ELSE got
       IN /\ requests' = [requests EXCEPT ![r] = next]
          /\ last' = CompareOp
    /\ UNCHANGED <<pureVars, jobVars, asrVars, envVars, transcriptFile, now, rawFile, sanFile>>

\* parseJsonStrict(text) does not throw
parses(text) == text # "not json"

\* CompareSchema.safeParse(parsed).success
schemaOk(text) == text = "{valid}"

\* withRetry: the failure is classified retryable.  v1 tests the message with /5\d\d/
\* and /Service Unavailable|temporarily|unavailable|timeout|timed out|aborted/i, v2
\* with includes('TIMEOUT') and includes('503'); the errors carry no status
retryable(ver, msg) ==
    IF ver = "v1" THEN msg \in { "503 Service Unavailable", "The operation was aborted" }
    ELSE msg \in { "503 Service Unavailable" }

\* the loop with one attempt more: attempt <= retries + 1
retryAgainOnceMore(ver, calls, msg) == calls <= 3 /\ retryable(ver, msg)

\* withRetry(..., 2, 1.8): attempt <= retries && retryable
retryAgain(ver, calls, msg) == calls <= 2 /\ retryable(ver, msg)

\* callModel returns text: 7) parse & validate
ModelText(r, text) ==
    /\ r \in DOMAIN requests
    /\ requests[r].pc = "model"
    /\ LET req == requests[r]
           next ==
               IF ~parses(text) THEN Returned(req, "SCHEMA")
               ELSE IF ~schemaOk(text) THEN Returned(req, "SCHEMA")
               ELSE IF req.ver = "v1" THEN [req EXCEPT !.pc = "readA"]
               ELSE Returned(req, "success")
       IN /\ requests' = [requests EXCEPT ![r] = next]
          /\ last' = Op("modelText", r, 0, text)
    /\ UNCHANGED <<pureVars, jobVars, asrVars, envVars, transcriptFile, now, rawFile, sanFile>>

\* callModel rejects: withRetry waits for another attempt, or rethrows
ModelFail(r, msg) ==
    /\ r \in DOMAIN requests
    /\ requests[r].pc = "model"
    /\ LET req == requests[r]
           next == IF retryAgain(req.ver, req.calls, msg) THEN [req EXCEPT !.pc = "backoff"]
                   ELSE Returned(req, compareErrorCode(msg))
       IN /\ requests' = [requests EXCEPT ![r] = next]
          /\ last' = Op("modelFail", r, 0, msg)
    /\ UNCHANGED <<pureVars, jobVars, asrVars, envVars, transcriptFile, now, rawFile, sanFile>>

\* the delay of withRetry ends: the next attempt
BackoffEnd(r) ==
    /\ r \in DOMAIN requests
    /\ requests[r].pc = "backoff"
    /\ requests' = [requests EXCEPT ![r].pc = "model", ![r].calls = @ + 1]
    /\ last' = CompareOp
    /\ UNCHANGED <<pureVars, jobVars, asrVars, envVars, transcriptFile, now, rawFile, sanFile>>

\* the timer of withTimeout(..., REQUEST_TIMEOUT_MS) around the model call fires
ModelTimeout(r) ==
    /\ r \in DOMAIN requests
    /\ requests[r].pc \in {"model", "backoff"}
    /\ requests' = [requests EXCEPT ![r] = Returned(@, compareErrorCode("TIMEOUT"))]
    /\ last' = CompareOp
    /\ UNCHANGED <<pureVars, jobVars, asrVars, envVars, transcriptFile, now, rawFile, sanFile>>

\* v1: the read of A's transcript returns
CompareReadA(r) ==
    /\ r \in DOMAIN requests
    /\ requests[r].pc = "readA"
    /\ requests' = [requests EXCEPT
                       ![r].pc = "readB",
                       ![r].ta = readTranscriptIfExists(tokenOf(requests[r], "A"))]
    /\ last' = CompareOp
    /\ UNCHANGED <<pureVars, jobVars, asrVars, envVars, transcriptFile, now, rawFile, sanFile>>

\* v1: the read of B's transcript returns: the success response
CompareReadB(r) ==
    /\ r \in DOMAIN requests
    /\ requests[r].pc = "readB"
    /\ requests' = [requests EXCEPT ![r] = Returned(@, "success")]
    /\ last' = CompareOp
    /\ UNCHANGED <<pureVars, jobVars, asrVars, envVars, transcriptFile, now, rawFile, sanFile>>

\* POST to the proxy route: fetchWithTimeout posts the body to /compare2 of the
\* server COMPARE_API_BASE names, which validates it and starts both probes
ProxyPost(ver, body) ==
    /\ Len(requests) < MaxProxied
    /\ LET req == [NewRequest(ver, body.A, body.B) EXCEPT !.via = "proxy"]
           next == IF ~body.typed THEN Returned(req, "UNKNOWN")
                   ELSE IF ~matchesTIKTOK_RE(body.A) \/ ~matchesTIKTOK_RE(body.B)
                   THEN Returned(req, "INVALID_URL")
                   ELSE req
       IN requests' = Append(requests, next)
    /\ last' = CompareOp
    /\ UNCHANGED <<pureVars, jobVars, asrVars, envVars, transcriptFile, now, rawFile, sanFile>>

\* the timer of fetchWithTimeout fires before the server has answered: the fetch is
\* aborted and the route answers; handleCompare goes on in the server
ProxyTimeout(r) ==
    /\ r \in DOMAIN requests
    /\ requests[r].via = "proxy"
    /\ requests[r].client = NoResponse
    /\ requests' = [requests EXCEPT ![r].client = proxyTimeoutResponse]
    /\ last' = CompareOp
    /\ UNCHANGED <<pureVars, jobVars, asrVars, envVars, transcriptFile, now, rawFile, sanFile>>

\* the compare servers on an empty cache directory
InitCompare == InitWith(BOOLEAN, {DefaultConcurrency})

NextCompare ==
    \/ \E ver \in Versions, body \in CompareBodies : CompareStart(ver, body)
    \/ \E r \in 1..MaxRequests, side \in Sides, ok \in BOOLEAN,
          size \in EstimatedSizes, msg \in ToolErrors : ProbeEnd(r, side, ok, size, msg)
    \/ \E r \in 1..MaxRequests : CompareGuard(r)
    \/ \E r \in 1..MaxRequests, side \in Sides, ok \in BOOLEAN,
          size \in ActualSizes, msg \in ToolErrors : DownloadEnd(r, side, ok, size, msg)
    \/ \E r \in 1..MaxRequests : CompareStat(r)
    \/ \E r \in 1..MaxRequests, side \in Sides : SanitizeOpen(r, side)
    \/ \E r \in 1..MaxRequests, side \in Sides, ok \in BOOLEAN, msg \in ToolErrors :
          SanitizeEnd(r, side, ok, msg)
    \/ \E r \in 1..MaxRequests, side \in Sides, state \in {"ACTIVE", "FAILED"} :
          UploadEnd(r, side, state)
    \/ \E r \in 1..MaxRequests, text \in ModelTexts : ModelText(r, text)
    \/ \E r \in 1..MaxRequests, msg \in ModelErrors : ModelFail(r, msg)
    \/ \E r \in 1..MaxRequests : BackoffEnd(r)
    \/ \E r \in 1..MaxRequests : ModelTimeout(r)
    \/ \E r \in 1..MaxRequests : CompareReadA(r)
    \/ \E r \in 1..MaxRequests : CompareReadB(r)

SpecCompare == InitCompare /\ [][NextCompare]_vars

\* one request posted through the proxy route of the web application
NextProxy ==
    \/ \E ver \in Versions, body \in CompareBodies : ProxyPost(ver, body)
    \/ \E r \in 1..MaxProxied : ProxyTimeout(r)
    \/ \E r \in 1..MaxProxied, side \in Sides, ok \in BOOLEAN,
          size \in EstimatedSizes, msg \in ToolErrors : ProbeEnd(r, side, ok, size, msg)
    \/ \E r \in 1..MaxProxied : CompareGuard(r)
    \/ \E r \in 1..MaxProxied, side \in Sides, ok \in BOOLEAN,
          size \in ActualSizes, msg \in ToolErrors : DownloadEnd(r, side, ok, size, msg)
    \/ \E r \in 1..MaxProxied : CompareStat(r)
    \/ \E r \in 1..MaxProxied, side \in Sides : SanitizeOpen(r, side)
    \/ \E r \in 1..MaxProxied, side \in Sides, ok \in BOOLEAN, msg \in ToolErrors :
          SanitizeEnd(r, side, ok, msg)
    \/ \E r \in 1..MaxProxied, side \in Sides, state \in {"ACTIVE", "FAILED"} :
          UploadEnd(r, side, state)
    \/ \E r \in 1..MaxProxied, text \in ModelTexts : ModelText(r, text)
    \/ \E r \in 1..MaxProxied, msg \in ModelErrors : ModelFail(r, msg)
    \/ \E r \in 1..MaxProxied : BackoffEnd(r)
    \/ \E r \in 1..MaxProxied : ModelTimeout(r)
    \/ \E r \in 1..MaxProxied : CompareReadA(r)
    \/ \E r \in 1..MaxProxied : CompareReadB(r)

SpecProxy == InitCompare /\ [][NextProxy]_vars

----------------------------------------------------------------------------
(* The producers of results applied to one input each: the fusion of              *)
(* single-analyzer.ts and the schemas the model paths validate their output with  *)

\* the actions arrays a model can return
ModelActions == UNION { [1..n -> {"", "add a cta"}] : n \in 0..MaxActions }

\* the model paths: handleCompare of v1 and v2, and the fallback of /api/videos/compare
ModelProducers == { "v1", "v2", "fallback" }

\* actions: z.tuple([z.string(), z.string(), z.string()]) in CompareSchema and
\* CompareSchemaUI, z.array(z.string()).length(3) in CompareOutputSnake and
\* fallbackSchema
actionsSchemaOk(acts) == Len(acts) = 3

\* compareViaSingleAnalyzer on the parsed data of both sides (each function of this
\* part is applied to one input, from the initial state)
Fuse(pa, pb) ==
    /\ call = NoCall
    /\ call' = [fn |-> "mapSinglesToTabs", A |-> pa, B |-> pb]
    /\ value' = [success |-> TRUE, result |-> mapSinglesToTabs(pa, pb)]
    /\ last' = Op("fuse", 0, 0, "")
    /\ UNCHANGED <<jobVars, asrVars, envVars, transcriptFile, now, cmpVars>>

\* a model path validates the object the model returned (v2 maps it with
\* mapSnakeToUI, which passes actions on, and validates again)
ValidateModelOutput(producer, acts) ==
    /\ call = NoCall
    /\ call' = [fn |-> "safeParse", producer |-> producer, actions |-> acts]
    /\ value' = IF actionsSchemaOk(acts)
                THEN [success |-> TRUE, result |-> [actions |-> acts]]
                ELSE [success |-> FALSE, errorCode |-> "SCHEMA"]
    /\ last' = Op("validate", 0, 0, "")
    /\ UNCHANGED <<jobVars, asrVars, envVars, transcriptFile, now, cmpVars>>

\* Texts are sequences of tokens: the fence marker (three backquotes), the word json, a line feed, a
\* blank, a word of prose, the braces, the member "a":1 and the key "b":
WhiteSpace == { " ", "\n" }
ProseTokens == { "w", " " }

\* the valid JSON object texts a model returns
JsonTexts ==
    { <<"{", "}">>, <<"{", "a1", "}">>, <<"{", " ", "a1", " ", "}">>,
      <<"{", "b:", "{", "a1", "}", "}">> }

\* prose without braces
Prose == UNION { [1..n -> ProseTokens] : n \in 0..MaxProse }

\* J inside a json code fence
Fenced(J) == <<"fence", "json", "\n">> \o J \o <<"\n", "fence">>

\* what a model replies: an object text, bare, fenced or among prose, or a text that
\* is cut off
ModelReplies ==
    { pre \o J \o post : pre \in Prose, post \in Prose, J \in JsonTexts }
       \cup { Fenced(J) : J \in JsonTexts }
       \cup { pre \o <<"{", "a1">> : pre \in Prose }

\* String.prototype.trim
RECURSIVE trimStart(_)
trimStart(t) == IF t # <<>> /\ Head(t) \in WhiteSpace THEN trimStart(Tail(t)) ELSE t

RECURSIVE trimEnd(_)
trimEnd(t) ==
    IF t # <<>> /\ t[Len(t)] \in WhiteSpace THEN trimEnd(SubSeq(t, 1, Len(t) - 1)) ELSE t

trim(t) == trimEnd(trimStart(t))

startsWith(t, prefix) == Len(t) >= Len(prefix) /\ SubSeq(t, 1, Len(prefix)) = prefix

\* the fence markers at both ends are removed, with the word json and the line
\* feed after the opening one, and the text is trimmed before and after
stripFences(text) ==
    LET a == trim(text)
        b == IF startsWith(a, <<"fence", "json", "\n">>) THEN SubSeq(a, 4, Len(a))
             ELSE IF startsWith(a, <<"fence">>) THEN Tail(a)
             ELSE a
        c == IF b # <<>> /\ b[Len(b)] = "fence" THEN SubSeq(b, 1, Len(b) - 1) ELSE b
    IN trim(c)

\* the grammar of JSON on the tokens at hand: an object is empty, holds "a":1, or
\* holds "b": followed by an object
RECURSIVE isObject(_)
isObject(u) ==
    /\ Len(u) >= 2
    /\ u[1] = "{"
    /\ u[Len(u)] = "}"
    /\ LET m == SubSeq(u, 2, Len(u) - 1)
       IN \/ m = <<>>
          \/ m = <<"a1">>
          \/ (m # <<>> /\ Head(m) = "b:" /\ isObject(Tail(m)))

\* JSON.parse: white space between tokens is skipped; the value is written as the
\* tokens of the object, or a SyntaxError is thrown
JSONparse(t) ==
    LET u == SelectSeq(t, LAMBDA x : x \notin WhiteSpace)
    IN IF isObject(u) THEN [ok |-> TRUE, value |-> u, error |-> ""]
       ELSE [ok |-> FALSE, value |-> <<>>, error |-> "SyntaxError"]

\* indexOf, lastIndexOf: positions counted from 1, 0 when there is none
indexOf(t, x) ==
    IF \E k \in 1..Len(t) : t[k] = x
    THEN CHOOSE k \in 1..Len(t) : t[k] = x /\ \A j \in 1..(k - 1) : t[j] # x
    ELSE 0

lastIndexOf(t, x) ==
    IF \E k \in 1..Len(t) : t[k] = x
    THEN CHOOSE k \in 1..Len(t) : t[k] = x /\ \A j \in (k + 1)..Len(t) : t[j] # x
    ELSE 0

\* parseJsonStrict of v1 (fences stripped, then JSON.parse) and of v2 (on a
\* SyntaxError, the text from the first { to the last } is parsed)
parseJsonStrict(ver, text) ==
    LET t == stripFences(text)
        whole == JSONparse(t)
        start == indexOf(t, "{")
        end == lastIndexOf(t, "}")
    IN IF ver = "v1" \/ whole.ok THEN whole
       ELSE IF start # 0 /\ end # 0 /\ end > start THEN JSONparse(SubSeq(t, start, end))
       ELSE [ok |-> FALSE, value |-> <<>>, error |-> "NON_JSON"]

\* a compare server parses the text the model returned
ParseReply(ver, text) ==
    /\ call = NoCall
    /\ call' = [fn |-> "parseJsonStrict", ver |-> ver, text |-> text]
    /\ value' = parseJsonStrict(ver, text)
    /\ last' = Op("parse", 0, 0, "")
    /\ UNCHANGED <<jobVars, asrVars, envVars, transcriptFile, now, cmpVars>>

\* Keys are sequences of characters: lower-case letters and the underscore
Letters == { "a", "b" }
KeyChars == Letters \cup { "_" }
toUpperCase(c) == IF c = "a" THEN "A" ELSE IF c = "b" THEN "B" ELSE c
toLowerCaseChar(c) == IF c = "A" THEN "a" ELSE IF c = "B" THEN "b" ELSE c

\* the snake_case keys an object can have
SnakeKeys == UNION { [1..n -> KeyChars] : n \in 1..MaxKeyLen }

\* the objects whose keys are renamed: one key or two
SnakeObjects == { { k1, k2 } : k1 \in SnakeKeys, k2 \in SnakeKeys }

\* key.replace(/_([a-z])/g, (_, c) => c.toUpperCase())
RECURSIVE replaceUnderscoreLetter(_)
replaceUnderscoreLetter(key) ==
    IF key = <<>> THEN <<>>
    ELSE IF Head(key) = "_" /\ Len(key) >= 2 /\ key[2] \in Letters
    THEN <<toUpperCase(key[2])>> \o replaceUnderscoreLetter(SubSeq(key, 3, Len(key)))
    ELSE <<Head(key)>> \o replaceUnderscoreLetter(Tail(key))

\* if (!key.includes('_')) return key
toCamelCase(key) ==
    IF ~(\E k \in 1..Len(key) : key[k] = "_") THEN key ELSE replaceUnderscoreLetter(key)

\* keysToCamelDeep on the keys of an object: out[toCamelCase(k)] = ...
keysToCamelDeep(obj) == { toCamelCase(k) : k \in obj }

\* the fields of a model output of v2 that mapSnakeToUI is given: the six of
\* CompareOutputSnake, and those of a timeline item its mapping reads
TopLevelFields ==
    { "summary", "per_video", "diff", "actions", "timeline", "improvement_summary" }

TimelineItemFields ==
    { "timeline.A.t", "timeline.A.phase", "timeline.A.fix_hint", "timeline.B.fix_hint",
      "timeline.gap.hint", "timeline.gap.severity" }

\* the outputs: with an empty timeline or one with items, with the optional
\* _key_clips or without
SnakeOutputs ==
    { TopLevelFields \cup items \cup clips :
         items \in { {}, TimelineItemFields }, clips \in SUBSET { "_key_clips" } }

\* mapSnakeToUI field by field: the fields of the UI object a field of the model
\* output goes into (none: the field is not copied)
uiKeys(field) ==
    CASE field = "summary" -> { "summary" }
      [] field = "per_video" -> { "perVideo" }
      [] field = "diff" -> { "diff" }
      [] field = "actions" -> { "actions" }
      [] field = "timeline" -> { "timeline" }
      [] field = "improvement_summary" -> { "improvementSummary" }
      [] field \in { "timeline.A.t", "timeline.A.phase" } -> { "timeline.labelA" }
      [] field \in { "timeline.A.fix_hint", "timeline.B.fix_hint" } -> { "timeline.tip" }
      [] field = "timeline.gap.hint" -> { "timeline.tip", "timeline.description" }
      [] field = "timeline.gap.severity" -> { "timeline.severity" }
      [] OTHER -> {}

mapSnakeToUI(obj) == UNION { uiKeys(field) : field \in obj }

\* the keys of an object are renamed
CamelKeys(obj) ==
    /\ call = NoCall
    /\ call' = [fn |-> "keysToCamelDeep", keys |-> obj]
    /\ value' = [keys |-> keysToCamelDeep(obj)]
    /\ last' = Op("camel", 0, 0, "")
    /\ UNCHANGED <<jobVars, asrVars, envVars, transcriptFile, now, cmpVars>>

\* v2 maps the validated model output to the UI contract
MapSnakeToUI(obj) ==
    /\ call = NoCall
    /\ call' = [fn |-> "mapSnakeToUI", keys |-> obj]
    /\ value' = [keys |-> mapSnakeToUI(obj)]
    /\ last' = Op("mapSnakeToUI", 0, 0, "")
    /\ UNCHANGED <<jobVars, asrVars, envVars, transcriptFile, now, cmpVars>>

InitPure == InitWith({FALSE}, {DefaultConcurrency})

NextPure ==
    \/ \E pa \in ParsedData, pb \in ParsedData : Fuse(pa, pb)
    \/ \E producer \in ModelProducers, acts \in ModelActions :
          ValidateModelOutput(producer, acts)
    \/ \E ver \in Versions, text \in ModelReplies : ParseReply(ver, text)
    \/ \E obj \in SnakeObjects : CamelKeys(obj)
    \/ \E obj \in SnakeOutputs : MapSnakeToUI(obj)

SpecPure == InitPure /\ [][NextPure]_vars

----------------------------------------------------------------------------
(* ytMetadata and ytDownload of two-video-compare.ts: one call, its attempts, the   *)
(* yt-dlp process of each attempt *)

TIKTOK_API_ENDPOINTS ==
    << "api16-normal-c-useast1a.tiktokv.com", "api16-normal-c-useast2a.tiktokv.com",
       "api16-core-c-useast1a.tiktokv.com", "api19-normal-c-useast1a.tiktokv.com",
       "api22-normal-c-useast1a.tiktokv.com" >>

\* the values of the retries parameter (YT_DLP_RETRIES is read from the environment)
RetryLimits == 0..MaxYtRetries

YtFunctions == { "ytMetadata", "ytDownload" }

\* TIKTOK_API_ENDPOINTS[endpointIndex % TIKTOK_API_ENDPOINTS.length], by position
endpointAt(endpointIndex) == endpointIndex % Len(TIKTOK_API_ENDPOINTS)

\* the backoff without its cap
waitTimeUncapped(attempt) == 1000 * 2^(attempt - 1)

\* Math.min(1000 * Math.pow(2, attempt - 1), 8000)
waitTime(attempt) ==
    IF 1000 * 2^(attempt - 1) < 8000 THEN 1000 * 2^(attempt - 1) ELSE 8000

\* the loop at the start of attempt number attempt: the endpoint is chosen and the
\* yt-dlp process is spawned (execPromise), raced against the timer of withTimeout
startAttempt(c, attempt) ==
    [c EXCEPT !.pc = "running", !.attempt = attempt,
              !.endpoint = endpointAt(c.endpointIndex),
              !.endpointIndex = c.endpointIndex + 1,
              !.wait = 0,
              !.procs = c.procs \cup { attempt }]

\* ytMetadata(url) / ytDownload(url, outPath) is called with a retries value
YtCall(fn, retries) ==
    /\ call = NoCall
    /\ LET c == [fn |-> fn, retries |-> retries, pc |-> "loop", attempt |-> 0,
                 endpoint |-> -1, endpointIndex |-> 0, wait |-> 0,
                 lastError |-> None, procs |-> {}]
       IN IF 1 <= retries
          THEN /\ call' = startAttempt(c, 1)
               /\ UNCHANGED value
          ELSE /\ call' = [c EXCEPT !.pc = "thrown"]
               /\ value' = [thrown |-> c.lastError]
    /\ last' = Op("ytCall", 0, 0, "")
    /\ UNCHANGED <<jobVars, asrVars, envVars, transcriptFile, now, cmpVars>>

\* the catch block of the loop: lastError = error, then the wait, or the throw after
\* the loop
attemptFailed(c, msg) ==
    IF c.attempt < c.retries
    THEN [c EXCEPT !.pc = "waiting", !.lastError = msg, !.wait = waitTime(c.attempt)]
    ELSE [c EXCEPT !.pc = "thrown", !.lastError = msg]

\* the timer of withTimeout fires before yt-dlp has exited: the promise of the attempt
\* rejects with TIMEOUT; nothing is done to the process
YtTimeout ==
    /\ call # NoCall
    /\ call.fn \in YtFunctions
    /\ call.pc = "running"
    /\ call' = attemptFailed(call, TimeoutMessage)
    /\ value' = IF call'.pc = "thrown" THEN [thrown |-> call'.lastError] ELSE value
    /\ last' = Op("ytTimeout", 0, 0, "")
    /\ UNCHANGED <<jobVars, asrVars, envVars, transcriptFile, now, cmpVars>>

\* the yt-dlp process of attempt k exits: if the function still awaits it, the
\* attempt ends; otherwise only the process is gone
YtExit(k, ok, msg) ==
    /\ call # NoCall
    /\ call.fn \in YtFunctions
    /\ k \in call.procs
    /\ LET gone == [call EXCEPT !.procs = @ \ { k }]
       IN IF call.pc = "running" /\ call.attempt = k
          THEN IF ok
               THEN /\ call' = [gone EXCEPT !.pc = "returned"]
                    /\ value' = [returned |-> TRUE]
               ELSE /\ call' = attemptFailed(gone, msg)
                    /\ value' = IF call'.pc = "thrown" THEN [thrown |-> call'.lastError]
                                ELSE value
          ELSE /\ call' = gone
               /\ UNCHANGED value
    /\ last' = Op("ytExit", 0, 0, "")
    /\ UNCHANGED <<jobVars, asrVars, envVars, transcriptFile, now, cmpVars>>

\* the wait before the next attempt is over
YtWaitEnd ==
    /\ call # NoCall
    /\ call.fn \in YtFunctions
    /\ call.pc = "waiting"
    /\ call' = startAttempt(call, call.attempt + 1)
    /\ last' = Op("ytWaitEnd", 0, 0, "")
    /\ UNCHANGED <<value, jobVars, asrVars, envVars, transcriptFile, now, cmpVars>>

NextYt ==
    \/ \E fn \in YtFunctions, retries \in RetryLimits : YtCall(fn, retries)
    \/ YtTimeout
    \/ \E k \in 1..MaxYtRetries, ok \in BOOLEAN, msg \in ToolErrors : YtExit(k, ok, msg)
    \/ YtWaitEnd

SpecYt == InitPure /\ [][NextYt]_vars

----------------------------------------------------------------------------
(* The specification *)

Next ==
    \/ ConfirmFab
    \/ \E req \in CreateRequests : CreateJob(req)
    \/ \E id \in JobIds : Retry(id)
    \/ \E id \in JobIds : PollStart(id)
    \/ \E i \in 1..MaxRuns : RunStart(i)
    \/ \E i \in 1..MaxRuns, d \in AnalyzerData : RunAnalyzerResolve(i, d[1], d[2])
    \/ \E i \in 1..MaxRuns, msg \in ErrorMessages : RunAnalyzerReject(i, msg)
    \/ \E i \in 1..MaxRuns : RunTimeout(i)
    \/ \E i \in 1..MaxRuns : RunReadA(i)
    \/ \E i \in 1..MaxRuns : RunReadB(i)
    \/ \E k \in 1..MaxPolls : PollReadA(k)
    \/ \E k \in 1..MaxPolls : PollReadB(k)
    \/ \E src \in Sources, found \in BOOLEAN : TryScheduleAsr(src, found)
    \/ Worker
    \/ \E n \in AsrIds, ok \in BOOLEAN, text \in Texts : WorkerTools(n, ok, text)
    \/ \E n \in AsrIds, ok \in BOOLEAN : WorkerWrite(n, ok)

Spec == Init /\ [][Next]_vars

\* the same with the wall clock moving
SpecTimed == Init /\ [][Next \/ Tick]_vars

\* the same with the analyzer calls that outlive their run
NextLate ==
    \/ Next
    \/ \E i \in 1..MaxRuns, ok \in BOOLEAN : RunAnalyzerLate(i, ok)

SpecLate == Init /\ [][NextLate]_vars

\* the worker pool alone, under any sequence of scheduleASR calls
NextAsr ==
    \/ \E tok \in Tokens : ScheduleASRCall(tok)
    \/ Worker
    \/ \E n \in AsrIds, ok \in BOOLEAN, text \in Texts : WorkerTools(n, ok, text)
    \/ \E n \in AsrIds, ok \in BOOLEAN : WorkerWrite(n, ok)

SpecAsr == InitAsr /\ [][NextAsr]_vars

\* a video transcribed more than once: the transcription tools are not bound to give
\* the same text twice, and every run overwrites the transcript file of the token
Transcriptions == { "[00:00-00:02] hi", "[00:00-00:03] hey" }

\* one job comparing a TikTok video, on a server that also transcribes for the
\* direct compare pipeline
RepeatRequests ==
    { req \in CreateRequests :
         /\ req.wellFormed
         /\ req.a = [type |-> "tiktok", key |-> "https://www.tiktok.com/v1"]
         /\ req.b = req.a }

NextRepeat ==
    \/ ConfirmFab
    \/ \E req \in RepeatRequests : CreateJob(req)
    \/ \E id \in JobIds : Retry(id)
    \/ \E id \in JobIds : PollStart(id)
    \/ \E i \in 1..MaxRuns : RunStart(i)
    \/ \E i \in 1..MaxRuns : RunAnalyzerResolve(i, PoorData, PoorData)
    \/ \E i \in 1..MaxRuns : RunReadA(i)
    \/ \E i \in 1..MaxRuns : RunReadB(i)
    \/ \E k \in 1..MaxPolls : PollReadA(k)
    \/ \E k \in 1..MaxPolls : PollReadB(k)
    \/ ScheduleASRCall("5d41402a")
    \/ Worker
    \/ \E n \in AsrIds, text \in Transcriptions : WorkerTools(n, TRUE, text)
    \/ \E n \in AsrIds : WorkerWrite(n, TRUE)

SpecRepeat == InitWith({TRUE}, {DefaultConcurrency}) /\ [][NextRepeat]_vars

----------------------------------------------------------------------------
(* Properties of the job state machine *)

\* the runJob executions of job id between their write of status=processing and
\* their terminal write
InFlight(id) ==
    { i \in DOMAIN runs : runs[i].job = id /\ runs[i].pc \in {"calling", "readA", "readB"} }

\* the values status takes for job id in the step just made, in order: runJob writes
\* processing and then error in one synchronous segment when the fab is missing
StatusPath(id) ==
    IF last'.op = "runStartNoFab" /\ last'.job = id
    THEN <<jobs[id].status, "processing", jobs'[id].status>>
    ELSE <<jobs[id].status, jobs'[id].status>>

AllowedTransitions ==
    { <<"queued", "processing">>, <<"processing", "done">>, <<"processing", "error">>,
      <<"done", "queued">>, <<"error", "queued">> }

\* C1: every change of a job's status is queued->processing, processing->done,
\* processing->error or done/error->queued, and a change to queued is made by a
\* retry request for that job.
C1_StatusTransitions ==
    [][\A id \in DOMAIN jobs :
          LET path == StatusPath(id)
          IN \A k \in 1..(Len(path) - 1) :
                path[k] # path[k + 1] =>
                    /\ <<path[k], path[k + 1]>> \in AllowedTransitions
                    /\ path[k + 1] = "queued" => (last'.op = "retry" /\ last'.job = id)
      ]_vars

\* C2: at most one runJob execution of a job is in flight at any time.
C2_AtMostOneRunInFlight ==
    \A id \in DOMAIN jobs : Cardinality(InFlight(id)) <= 1

\* C3: a retry request for a job whose status is processing is answered 409
\* ALREADY_RUNNING, schedules no run and leaves the job record unchanged.
C3_RetryWhileProcessing ==
    [][\A id \in DOMAIN jobs :
          (last'.op = "retry" /\ last'.job = id /\ jobs[id].status = "processing")
              => /\ last'.code = 409
                 /\ last'.err = "ALREADY_RUNNING"
                 /\ runs' = runs
                 /\ jobs' = jobs
      ]_vars

\* a retry has just been rejected while a run of the job is in flight
C3_Witness ==
    /\ last.op = "retry"
    /\ last.code = 409
    /\ jobs[last.job].status = "processing"
    /\ InFlight(last.job) # {}

\* C4: a job has a result exactly when its status is done, and an errorCode exactly
\* when its status is error.
C4_ResultIffDone ==
    \A id \in DOMAIN jobs :
        /\ jobs[id].result.present <=> jobs[id].status = "done"
        /\ jobs[id].errorCode # None <=> jobs[id].status = "error"

\* C5: result is given a value only by the store update that moves the job from
\* processing to done, errorCode only by the one that moves it from processing to
\* error, each once per creation or retry; a poll never writes either field.
C5_ResultSetOnceWithDone ==
    [][\A id \in DOMAIN jobs :
          /\ (jobs'[id].result # jobs[id].result /\ jobs'[id].result.present)
                => (last'.op = "runDone" /\ last'.job = id /\ jobs'[id].status = "done")
          /\ (jobs'[id].errorCode # jobs[id].errorCode /\ jobs'[id].errorCode # None)
                => (last'.op \in {"runError", "runTimeout", "runStartNoFab"}
                    /\ last'.job = id /\ jobs'[id].status = "error")
          /\ (last'.op = "runDone" /\ last'.job = id)
                => (jobs[id].status = "processing" /\ ~jobs[id].result.present)
          /\ (last'.op \in {"runError", "runTimeout"} /\ last'.job = id)
                => (jobs[id].status = "processing" /\ jobs[id].errorCode = None)
      ]_vars

----------------------------------------------------------------------------
(* Termination of runs, under the fairness the event loop provides: timers fire *)
(* (the deferred start and the overall timeout) and file reads return.  The    *)
(* analyzer call is given no fairness: it may never return.                    *)

Fairness ==
    \A i \in 1..MaxRuns :
        /\ WF_vars(RunStart(i))
        /\ WF_vars(RunTimeout(i))
        /\ WF_vars(RunReadA(i))
        /\ WF_vars(RunReadB(i))

\* the orchestrator under the default environment (ASR_ENABLED unset), with the
\* create and retry requests that schedule its runs
InitRun == InitWith({FALSE}, {DefaultConcurrency})

NextRun ==
    \/ ConfirmFab
    \/ \E req \in CreateRequests : CreateJob(req)
    \/ \E id \in JobIds : Retry(id)
    \/ \E i \in 1..MaxRuns : RunStart(i)
    \/ \E i \in 1..MaxRuns, d \in AnalyzerData : RunAnalyzerResolve(i, d[1], d[2])
    \/ \E i \in 1..MaxRuns, msg \in ErrorMessages : RunAnalyzerReject(i, msg)
    \/ \E i \in 1..MaxRuns : RunTimeout(i)
    \/ \E i \in 1..MaxRuns : RunReadA(i)
    \/ \E i \in 1..MaxRuns : RunReadB(i)
    \/ \E src \in Sources, found \in BOOLEAN : TryScheduleAsr(src, found)

FairSpec == InitRun /\ [][NextRun]_vars /\ Fairness

RunPending(i) == i \in DOMAIN runs /\ runs[i].pc = "timer"
RunStarted(i) == i \in DOMAIN runs /\ runs[i].pc # "timer"
RunEnded(i) == i \in DOMAIN runs /\ runs[i].pc = "end"
StatusIn(id, S) == id \in DOMAIN jobs /\ jobs[id].status \in S

\* the operations that are a run's terminal write
TerminalOps == {"runDone", "runError", "runTimeout", "runStartNoFab"}

\* C6: every started run ends, its last write leaves the job in done or error, and
\* no job stays in processing forever.
C6_RunsTerminate ==
    /\ \A i \in 1..MaxRuns :
          [](i \in DOMAIN runs => <>RunEnded(i))
    /\ [](last.op \in TerminalOps => jobs[last.job].status \in {"done", "error"})
    /\ \A id \in JobIds :
          [](StatusIn(id, {"processing"}) => <>StatusIn(id, {"done", "error"}))

\* a run has ended through the overall timeout while the job was processing
C6_Witness ==
    /\ last.op = "runTimeout"
    /\ \A i \in DOMAIN runs : runs[i].job = last.job => runs[i].pc = "end"
    /\ jobs[last.job].status = "error"

\* C7: when the analyzer call times out (the overall timer fires, or the call itself
\* rejects with TIMEOUT), the job ends with status error, errorCode TIMEOUT and
\* stage error_timeout.
C7_TimeoutOutcome ==
    (last.op = "runTimeout" \/ (last.op = "runError" /\ last.err = "TIMEOUT"))
        => /\ jobs[last.job].status = "error"
           /\ jobs[last.job].errorCode = "TIMEOUT"
           /\ jobs[last.job].meta.stage = "error_timeout"

\* the overall timer has fired on a run whose analyzer call was still pending
C7_Witness ==
    /\ last.op = "runTimeout"
    /\ jobs[last.job].errorCode = "TIMEOUT"

\* C8: a retry request on a job that is not processing sets status=queued and clears
\* errorCode, result and completedAt in one update that leaves the other fields
\* alone, schedules exactly one run of the job, and that run later starts and writes
\* status=processing.
C8_RetryResets ==
    /\ [][\A id \in DOMAIN jobs :
            (last'.op = "retry" /\ last'.job = id /\ jobs[id].status # "processing")
                => /\ last'.code = 200
                   /\ jobs' = [jobs EXCEPT ![id] =
                                  [@ EXCEPT !.status = "queued", !.errorCode = None,
                                            !.result = NoResult, !.completedAt = NoTime]]
                   /\ runs' = Append(runs, NewRun(id))
        ]_vars
    /\ [][\A i \in DOMAIN runs :
            (runs[i].pc = "timer" /\ runs'[i].pc # "timer")
                => \/ jobs'[runs[i].job].status = "processing"
                   \/ last'.op = "runStartNoFab"
        ]_vars
    /\ \A i \in 1..MaxRuns :
          [](RunPending(i) => <>RunStarted(i))

\* a finished job has been retried: it is queued again with a run pending
C8_Witness ==
    /\ last.op = "retry"
    /\ last.code = 200
    /\ jobs[last.job].status = "queued"
    /\ jobs[last.job].metrics.completedAt # NoTime
    /\ \E i \in DOMAIN runs : runs[i].job = last.job /\ runs[i].pc = "timer"

\* C9: a job is created queued, and no operation changes the id, collectionId,
\* fabVersionId, sources or createdAt of an existing job, nor removes a job.
C9_SourceFieldsImmutable ==
    [][/\ \A id \in DOMAIN jobs :
             /\ id \in DOMAIN jobs'
             /\ \A f \in {"id", "collectionId", "fabVersionId", "a", "b", "createdAt"} :
                   jobs'[id][f] = jobs[id][f]
       /\ \A id \in DOMAIN jobs' \ DOMAIN jobs : jobs'[id].status = "queued"
      ]_vars

\* a job has gone through a run, a retry and a poll that merged transcripts
C9_Witness ==
    \E id \in DOMAIN jobs :
        /\ jobs[id].status = "done"
        /\ jobs[id].result.transcripts.present
        /\ last.op = "poll"
        /\ Len(runs) > 1

----------------------------------------------------------------------------
(* Properties of the transcription worker pool *)

\* C10: the number of transcription jobs executing never exceeds ASR_CONCURRENCY.
C10_ConcurrencyLimit == Cardinality(executing) <= ASR_CONCURRENCY

\* a worker woke up, found the pool at its limit and left a job waiting
C10_Witness ==
    /\ last.op = "workerIdle"
    /\ ASR_CONCURRENCY >= 1
    /\ Cardinality(executing) = ASR_CONCURRENCY
    /\ queue # <<>>

\* the event loop runs every setImmediate callback; the external tools exit or are
\* killed at ASR_TIMEOUT_MS; fs.writeFile returns
FairnessAsr ==
    /\ WF_vars(Worker)
    /\ \A n \in AsrIds :
          /\ WF_vars(\E ok \in BOOLEAN, text \in Texts : WorkerTools(n, ok, text))
          /\ WF_vars(\E ok \in BOOLEAN : WorkerWrite(n, ok))

FairSpecAsr == InitAsr /\ [][NextAsr]_vars /\ FairnessAsr

AsrAccepted(n) == n \in DOMAIN settled
AsrSettled(n) == n \in DOMAIN settled /\ settled[n] # "pending"

\* C11: with a concurrency limit of at least 1, the pool is never stuck (jobs waiting,
\* none executing, no worker wake-up pending), and every job scheduleASR accepted is
\* eventually resolved or rejected, also after earlier jobs failed.
C11_PoolMakesProgress ==
    /\ [](ASR_CONCURRENCY >= 1 => ~(queue # <<>> /\ executing = {} /\ wakeups = 0))
    /\ \A n \in AsrIds :
          []((AsrAccepted(n) /\ ASR_CONCURRENCY >= 1) => <>AsrSettled(n))

\* limit 1: three jobs were accepted and all three have settled, the first by failing
C11_Witness ==
    /\ ASR_CONCURRENCY = 1
    /\ Len(settled) = 3
    /\ settled[1] = "rejected"
    /\ settled[2] # "pending"
    /\ settled[3] = "resolved"
    /\ queue = <<>>
    /\ executing = {}

\* C12: waiting jobs start in the order scheduleASR accepted them: a job that starts
\* executing was accepted before every job still waiting, and the queue holds the
\* waiting jobs in order of acceptance.
C12_FifoStart ==
    /\ [][\A e \in executing' :
            ~isExecuting(e.id) => \A k \in DOMAIN queue : e.id <= queue[k].id
        ]_vars
    /\ [](\A k \in DOMAIN queue : \A m \in DOMAIN queue :
             k < m => queue[k].id < queue[m].id)

\* limit 1: job 2 waited for job 1 to end and has started while job 3 still waits
C12_Witness ==
    /\ last.op = "workerStart"
    /\ ASR_CONCURRENCY = 1
    /\ \E e \in executing : e.id = 2
    /\ AsrSettled(1)
    /\ \E k \in DOMAIN queue : queue[k].id = 3

\* C13: with transcription disabled, scheduleASR rejects with asr_disabled, queues
\* nothing and wakes no worker; the rejection is swallowed by the caller: the run that
\* made the call and the job record are left as they were.
C13_DisabledIsNoOp ==
    /\ [][(~ASR_ENABLED /\ last'.op = "scheduleASR")
             => /\ last'.err = "asr_disabled"
                /\ UNCHANGED asrVars
                /\ jobs' = jobs
                /\ runs' = runs
        ]_vars
    /\ [](~ASR_ENABLED => (queue = <<>> /\ active = 0 /\ wakeups = 0 /\ settled = <<>>))

\* a run in flight has had its scheduling rejected and is still waiting for the analyzer
C13_Witness ==
    /\ ~ASR_ENABLED
    /\ last.op = "scheduleASR"
    /\ last.err = "asr_disabled"
    /\ \E i \in DOMAIN runs :
          runs[i].pc = "calling" /\ jobs[runs[i].job].status = "processing"

----------------------------------------------------------------------------
(* Background transcription does not interfere with the job *)

\* what a client observes of the job's progress
JobObs(j) == <<j.status, j.meta.stage, j.errorCode>>

\* the steps of the transcription subsystem and of the polls that merge its output
AsrOps ==
    {"scheduleASR", "asrSkip", "workerIdle", "workerStart", "workerTools", "workerEnd",
     "poll", "pollStart", "pollReadA"}

\* C14: the status, stage and errorCode a job goes through do not depend on background
\* transcription: no step of the transcription subsystem changes them or a run; the
\* terminal write of the success path gives them the values it gives when no
\* transcript exists; and a run is never held back by the transcription queue: each of
\* its continuations is enabled whatever the state of the pool.
C14_TranscriptionDoesNotInterfere ==
    /\ [][/\ last'.op \in AsrOps =>
                /\ runs' = runs
                /\ DOMAIN jobs' = DOMAIN jobs
                /\ \A id \in DOMAIN jobs : JobObs(jobs'[id]) = JobObs(jobs[id])
          /\ last'.op = "runDone" =>
                \E i \in DOMAIN runs :
                    /\ runs[i].pc = "readB"
                    /\ runs[i].job = last'.job
                    /\ JobObs(jobs'[last'.job])
                         = JobObs(Assign(jobs[last'.job], DonePatch(runs[i], Null, Null)))
        ]_vars
    /\ [](\A i \in DOMAIN runs :
             /\ runs[i].pc = "timer" => ENABLED RunStart(i)
             /\ runs[i].pc = "calling" => ENABLED (\E d \in AnalyzerData : RunAnalyzerResolve(i, d[1], d[2]))
             /\ runs[i].pc = "calling" => ENABLED RunTimeout(i)
             /\ runs[i].pc = "readA" => ENABLED RunReadA(i)
             /\ runs[i].pc = "readB" => ENABLED RunReadB(i))

\* a run has ended done with a transcript attached while the pool still has work
C14_Witness ==
    /\ last.op = "runDone"
    /\ jobs[last.job].status = "done"
    /\ jobs[last.job].result.transcripts.present
    /\ \E n \in DOMAIN settled : settled[n] = "resolved"

----------------------------------------------------------------------------
(* Properties of the direct compare pipeline *)

\* request r has both estimates and has not yet evaluated the size guard
AtGuard(r) ==
    /\ requests[r].pc = "probe"
    /\ \A sd \in Sides : requests[r].est[sd] # Pending

Over50MB(sz) == sz > 52428800

\* the tool processes of request r
Sanitizing(q) == { sd \in Sides : q.san[sd] # "none" }
Uploading(q) == { sd \in Sides : q.up[sd] # "none" }

\* C15: when both probes have returned and either estimate exceeds 52,428,800 bytes
\* the request returns TOO_LARGE with no download started and no file written; with
\* estimates up to exactly 52,428,800 it returns nothing yet and goes on to the
\* download stage, downloading unless both raw files are cached.
C15_EstimatedSizeGuard ==
    [][\A r \in DOMAIN requests :
          (AtGuard(r) /\ requests'[r] # requests[r]) =>
              IF Over50MB(requests[r].est["A"]) \/ Over50MB(requests[r].est["B"])
              THEN /\ requests'[r].pc = "end"
                   /\ requests'[r].out = "TOO_LARGE"
                   /\ requests'[r].dl = {}
                   /\ rawFile' = rawFile
              ELSE /\ requests'[r].out = None
                   /\ requests'[r].pc \in {"download", "stat"}
                   /\ requests'[r].pc = "download"
                        <=> \E sd \in Sides : rawFile[tokenOf(requests[r], sd)] = NoFile
      ]_vars

\* an estimate one byte over the limit, beside one of exactly the limit, has ended the
\* request with TOO_LARGE before any download
C15_Witness ==
    \E r \in DOMAIN requests :
        /\ requests[r].out = "TOO_LARGE"
        /\ requests[r].est["A"] = 52428800
        /\ requests[r].est["B"] = 52428801
        /\ requests[r].dl = {}
        /\ \A sd \in Sides : rawFile[tokenOf(requests[r], sd)] = NoFile

\* C16: when a raw file on disk exceeds 52,428,800 bytes the request returns
\* TOO_LARGE without sanitizing, uploading or calling the model, and the oversized
\* file is no longer at its cache path.
C16_OversizedDownloadDiscarded ==
    [][\A r \in DOMAIN requests :
          (/\ requests[r].pc = "stat"
           /\ requests'[r] # requests[r]
           /\ \E sd \in Sides : Over50MB(rawFile[tokenOf(requests[r], sd)]))
          => /\ requests'[r].out = "TOO_LARGE"
             /\ Sanitizing(requests'[r]) = {}
             /\ Uploading(requests'[r]) = {}
             /\ requests'[r].calls = 0
             /\ sanFile' = sanFile
             /\ \A sd \in Sides :
                   Over50MB(rawFile[tokenOf(requests[r], sd)])
                       => rawFile'[tokenOf(requests[r], sd)] = NoFile
      ]_vars

\* C17: the download tool, and likewise sanitize, is invoked for a side only when no
\* artifact exists at the token's cache path, and a request whose sides name the same
\* url invokes it for one side only.
C17_OneInvocationPerToken ==
    /\ [][\A r \in DOMAIN requests : \A sd \in Sides :
             /\ (sd \in requests'[r].dl \ requests[r].dl)
                   => rawFile[tokenOf(requests[r], sd)] = NoFile
             /\ (requests'[r].san[sd] = "spawned" /\ requests[r].san[sd] = "none")
                   => sanFile[tokenOf(requests[r], sd)] = "absent"
        ]_vars
    /\ [](\A r \in DOMAIN requests :
             requests[r].url["A"] = requests[r].url["B"]
                => /\ Cardinality(requests[r].dl) <= 1
                   /\ Cardinality(Sanitizing(requests[r])) <= 1)

\* the requests / sides whose ffmpeg has the sanitized file of token tok as output
SanWriters(tok) ==
    { <<r, sd>> \in (DOMAIN requests) \X Sides :
          requests[r].san[sd] # "none" /\ tokenOf(requests[r], sd) = tok }

\* C18: two requests never sanitize to the same cache path at the same time, and a request
\* that goes on to upload has complete sanitized files: it has not taken as a cache
\* hit a file that another request is still writing.
C18_NoRaceOnCachePaths ==
    /\ [](\A tok \in CacheTokens :
             \A w1 \in SanWriters(tok), w2 \in SanWriters(tok) : w1[1] = w2[1])
    /\ [][\A r \in DOMAIN requests :
             (requests'[r].pc = "upload" /\ requests[r].pc # "upload")
                => \A sd \in Sides : sanFile'[tokenOf(requests[r], sd)] = "complete"
        ]_vars

C20_SchemaRetryOnce ==
    [][\A r \in DOMAIN requests :
          (last'.op = "modelText" /\ last'.job = r /\ last'.err # "{valid}")
              => /\ requests'[r].out = None
                 /\ requests'[r].pc = "model"
                 /\ requests'[r].calls = requests[r].calls + 1
      ]_vars

\* C21: callModel is invoked at most 3 times for a request; an attempt after the
\* first follows a failure classified retryable made while attempts remained; any
\* other failure ends the request with the code of that very error; a returned text
\* ends the loop at once.
C21_AtMostThreeAttempts ==
    /\ [](\A r \in DOMAIN requests : requests[r].calls <= 3)
    /\ [][\A r \in DOMAIN requests :
             LET q == requests[r]
                 n == requests'[r]
             IN /\ (n.calls > q.calls /\ q.calls > 0) =>
                      (q.pc = "backoff" /\ n.calls = q.calls + 1)
                /\ (n.pc = "backoff" /\ q.pc # "backoff") =>
                      /\ last'.op = "modelFail" /\ last'.job = r
                      /\ q.calls < 3
                      /\ last'.err \in { "503 Service Unavailable", "The operation was aborted" }
                /\ (last'.op = "modelFail" /\ last'.job = r /\ n.pc # "backoff") =>
                      /\ n.pc = "end" /\ n.out = "UNKNOWN"
                      /\ \/ q.calls = 3
                         \/ last'.err = "400 Bad Request"
                         \/ q.ver = "v2" /\ last'.err = "The operation was aborted"
                /\ (last'.op = "modelText" /\ last'.job = r) =>
                      (n.pc \notin {"model", "backoff"} /\ n.calls <= q.calls)
        ]_vars

\* the third attempt of a request has failed with a retryable error, which ended it
C21_Witness ==
    /\ last.op = "modelFail"
    /\ last.err = "503 Service Unavailable"
    /\ last.job \in DOMAIN requests
    /\ requests[last.job].out = "UNKNOWN"

----------------------------------------------------------------------------
(* Properties of the results *)

\* the number of recommendations of both sides that give a non-empty pick
UsablePicks(pa, pb) ==
    Cardinality({ <<sd, i>> \in {"A", "B"} \X (1..MaxRecs) :
                     LET recs == arrayOrEmpty((IF sd = "A" THEN pa ELSE pb).recommendations)
                     IN i <= Len(recs) /\ Truthy(pick(recs[i])) })

\* C22: a successful result of any producer has exactly 3 actions, each a string; the
\* fusion fills the places its sources leave with empty strings.
C22_ActionsHaveLengthThree ==
    /\ (call.fn \in {"mapSinglesToTabs", "safeParse"} /\ value.success)
          => /\ Len(value.result.actions) = 3
             /\ \A i \in 1..3 : value.result.actions[i] # None
    /\ call.fn = "mapSinglesToTabs"
          => /\ value.success
             /\ \A i \in 1..3 :
                   i > UsablePicks(call.A, call.B)
                       => value.result.actions[i] = ""

\* the fusion of an analysis with one usable recommendation and one without any has
\* padded two places
C22_Witness ==
    /\ call.fn = "mapSinglesToTabs"
    /\ UsablePicks(call.A, call.B) = 1
    /\ value.result.actions[1] # ""
    /\ value.result.actions[2] = ""
    /\ value.result.actions[3] = ""

----------------------------------------------------------------------------
(* The orchestrator with a reachable analyzer: every call resolves with the parsed *)
(* data of both sides before the timer of withTimeout fires                        *)

NextReachable ==
    \/ ConfirmFab
    \/ \E req \in CreateRequests : CreateJob(req)
    \/ \E id \in JobIds : Retry(id)
    \/ \E i \in 1..MaxRuns : RunStart(i)
    \/ \E i \in 1..MaxRuns, d \in AnalyzerData : RunAnalyzerResolve(i, d[1], d[2])
    \/ \E i \in 1..MaxRuns : RunReadA(i)
    \/ \E i \in 1..MaxRuns : RunReadB(i)
    \/ \E src \in Sources, found \in BOOLEAN : TryScheduleAsr(src, found)

\* the deferred starts run, the analyzer answers, the file reads return
FairnessReachable ==
    \A i \in 1..MaxRuns :
        /\ WF_vars(RunStart(i))
        /\ WF_vars(\E d \in AnalyzerData : RunAnalyzerResolve(i, d[1], d[2]))
        /\ WF_vars(RunReadA(i))
        /\ WF_vars(RunReadB(i))

FairSpecReachable == InitRun /\ [][NextReachable]_vars /\ FairnessReachable

\* the job waits for a run or is in one, and its collection and FAB version exist
JobUnderWay(id) ==
    /\ StatusIn(id, {"queued", "processing"})
    /\ jobs[id].fabVersionId \in fabVersions
    /\ jobs[id].collectionId \in collections

DoneWithTabs(id) ==
    /\ StatusIn(id, {"done"})
    /\ jobs[id].result.present
    /\ Len(jobs[id].result.actions) = 3
    /\ Len(jobs[id].result.timeline) <= 8

\* C23 as stated: every job that was created (its sources are valid tiktok urls)
\* eventually is done with a result of 3 actions and at most 8 timeline entries.
C23_EveryCreatedJobReachesDone ==
    \A id \in JobIds :
        [](StatusIn(id, {"queued", "processing"}) => <>DoneWithTabs(id))

\* C23: a job with two valid tiktok sources whose collection and FAB version exist,
\* waiting for a run or in one, eventually is done with a result of 3 actions and at
\* most 8 timeline entries, and once no run is left it stays so.
C23_JobReachesDone ==
    \A id \in JobIds :
        /\ [](JobUnderWay(id) => <>DoneWithTabs(id))
        /\ []((JobUnderWay(id) /\ Len(runs) = MaxRuns) => <>[]DoneWithTabs(id))

\* a job with two tiktok sources is done with three actions taken from the analyses
\* and one timeline pair per phase
C23_Witness ==
    \E id \in DOMAIN jobs :
        /\ jobs[id].a.type = "tiktok" /\ jobs[id].b.type = "tiktok"
        /\ DoneWithTabs(id)
        /\ jobs[id].result.actions[3] # ""
        /\ Len(jobs[id].result.timeline) = 4

----------------------------------------------------------------------------
(* Properties of the request validation *)

\* the url of a source is on a host of the allow-list
HostAllowed(src) ==
    hostname(src.key) \in { "tiktok.com", "www.tiktok.com", "vt.tiktok.com", "vm.tiktok.com" }

\* C24: a create request whose body fails the schema is answered 400 INVALID_REQUEST,
\* one with a url on a host outside the allow-list 400 INVALID_URL; neither creates a
\* job, schedules a run, or starts a transcription check; every stored job has sources
\* that passed validation.
C24_InvalidCreateRejected ==
    /\ [][\A req \in CreateRequests :
             (CreateJob(req) /\ (~req.wellFormed \/ ~HostAllowed(req.a) \/ ~HostAllowed(req.b)))
                => /\ last'.code = 400
                   /\ last'.err = (IF ~req.wellFormed THEN "INVALID_REQUEST" ELSE "INVALID_URL")
                   /\ last'.job = 0
                   /\ jobs' = jobs
                   /\ runs' = runs
                   /\ probes' = probes
                   /\ UNCHANGED <<asrVars, collections, fabVersions, polls>>
        ]_vars
    /\ [](\A id \in DOMAIN jobs :
             /\ jobs[id].a.type = "tiktok" /\ HostAllowed(jobs[id].a)
             /\ jobs[id].b.type = "tiktok" /\ HostAllowed(jobs[id].b))

\* beside a stored job, a create request with a url on another host has been refused
C24_Witness ==
    /\ last.op = "create"
    /\ last.code = 400
    /\ last.err = "INVALID_URL"
    /\ Len(jobs) = 1
    /\ Len(runs) = 1

\* C25: a poll or a retry naming an id no job has is answered 404 NOT_FOUND, changes
\* no job and schedules no run or transcript read.
C25_UnknownIdNotFound ==
    [][(last'.op \in {"poll", "pollStart", "retry"} /\ last'.job \notin DOMAIN jobs)
          => /\ last'.code = 404
             /\ last'.err = "NOT_FOUND"
             /\ jobs' = jobs
             /\ runs' = runs
             /\ polls' = polls
             /\ UNCHANGED <<probes, asrVars, transcriptFile>>
      ]_vars

\* a retry for an id without a job has been answered 404 before any job was created
C25_Witness ==
    /\ last.op = "retry"
    /\ last.code = 404
    /\ last.job \notin DOMAIN jobs
    /\ runs = <<>>

\* C26: when the deadline of the proxy expires, or the budget of the model call
\* expires in the server while the client still waits, the client receives status
\* 504 with success false and errorCode TIMEOUT.
C26_TimeoutIs504 ==
    [][\A r \in DOMAIN requests :
          ((ProxyTimeout(r) \/ ModelTimeout(r)) /\ requests[r].client = NoResponse)
             => requests'[r].client = [status |-> 504, success |-> FALSE,
                                       errorCode |-> "TIMEOUT"]
      ]_vars

\* C27: for every valid JSON object text J, parsing J inside a json code fence, or J
\* between prose without braces, succeeds and yields the object that parsing J
\* itself yields.
C27_LenientParseSameObject ==
    call.fn = "parseJsonStrict" =>
        \A J \in JsonTexts :
            (\/ call.text = Fenced(J)
             \/ \E pre \in Prose, post \in Prose : call.text = pre \o J \o post)
               => /\ value.ok
                  /\ value = parseJsonStrict(call.ver, J)

\* the renaming back to snake_case: each upper-case letter becomes an underscore and
\* the lower-case letter
RECURSIVE toSnakeCase(_)
toSnakeCase(key) ==
    IF key = <<>> THEN <<>>
    ELSE IF toLowerCaseChar(Head(key)) # Head(key)
    THEN <<"_", toLowerCaseChar(Head(key))>> \o toSnakeCase(Tail(key))
    ELSE <<Head(key)>> \o toSnakeCase(Tail(key))

\* C28: the renaming of the keys of a model output can be undone: renaming the keys
\* to camelCase and back reproduces the key set, and through the mapping to the UI
\* contract no field is lost (a leading-underscore key included) and no two fields
\* go into the same field.
C28_NamingRoundTrip ==
    /\ call.fn = "keysToCamelDeep" => { toSnakeCase(k) : k \in value.keys } = call.keys
    /\ call.fn = "mapSnakeToUI" =>
          /\ \A field \in call.keys : uiKeys(field) \subseteq value.keys /\ uiKeys(field) # {}
          /\ \A f1, f2 \in call.keys : uiKeys(f1) \cap uiKeys(f2) # {} => f1 = f2

\* C29: no two transcription jobs for the same token are queued or running at the
\* same time, and no transcription job is queued for a token whose transcript file
\* exists.
C29_OneTranscriptionPerToken ==
    /\ [](/\ \A i, j \in DOMAIN queue : queue[i].tok = queue[j].tok => i = j
          /\ \A i \in DOMAIN queue : \A e \in executing : queue[i].tok # e.tok
          /\ \A e1, e2 \in executing : e1.tok = e2.tok => e1.id = e2.id)
    /\ [][\A i \in DOMAIN queue' :
             (\A j \in DOMAIN queue : queue[j].id # queue'[i].id)
                => transcriptFile[queue'[i].tok] = Null
         ]_vars

----------------------------------------------------------------------------
(* One compare request, posted to a server or through the proxy, with what the     *)
(* code's own timers guarantee: every yt-dlp attempt is raced against a timer, so  *)
(* a probe and a download end; the timers of withTimeout and of fetchWithTimeout   *)
(* fire; the handler's own steps run.  ffmpeg, the Files API and the model are     *)
(* under no obligation.                                                            *)

NextOne ==
    \/ \E ver \in Versions, body \in CompareBodies :
          Len(requests) < MaxProxied /\ CompareStart(ver, body)
    \/ NextProxy

FairnessOne ==
    \A r \in 1..MaxProxied :
        /\ WF_vars(ProxyTimeout(r))
        /\ WF_vars(CompareGuard(r))
        /\ WF_vars(CompareStat(r))
        /\ WF_vars(BackoffEnd(r))
        /\ WF_vars(ModelTimeout(r))
        /\ WF_vars(CompareReadA(r))
        /\ WF_vars(CompareReadB(r))
        /\ \A side \in Sides :
              /\ WF_vars(\E ok \in BOOLEAN, size \in EstimatedSizes, msg \in ToolErrors :
                            ProbeEnd(r, side, ok, size, msg))
              /\ WF_vars(\E ok \in BOOLEAN, size \in ActualSizes, msg \in ToolErrors :
                            DownloadEnd(r, side, ok, size, msg))

FairSpecOne == InitCompare /\ [][NextOne]_vars /\ FairnessOne

\* C30: every compare request is answered in the end, whatever the provider, the
\* model and the external tools do.
C30_EveryRequestReturns ==
    \A r \in 1..MaxProxied :
        (r \in DOMAIN requests)
           ~> (r \in DOMAIN requests /\ requests[r].client # NoResponse)

\* the stages an execution of runJob may write next, from where it stands
ErrorStages == { "error_timeout", "error_schema", "error_unknown" }

StagesAfter(pc) ==
    CASE pc = "timer" -> { "preparing", "calling_model" }
      [] pc = "calling" -> { "parsing" } \cup ErrorStages
      [] pc \in { "readA", "readB" } -> { "done" }
      [] OTHER -> {}

\* C31: every write of a run moves the stage forward along preparing, calling_model,
\* parsing, done, or from one of the first three to an error stage, and the stage done
\* is written together with the status done.
C31_StageMovesForward ==
    [][\A i \in DOMAIN runs :
          (runs'[i] # runs[i] /\ hasJob(jobs, runs[i].job))
             => LET id == runs[i].job
                IN \/ jobs'[id] = jobs[id]
                   \/ /\ jobs'[id].meta.stage \in StagesAfter(runs[i].pc)
                      /\ jobs'[id].meta.stage = "done" => jobs'[id].status = "done"
      ]_vars

\* a run has gone through all stages and has written done
C31_Witness ==
    /\ last.op = "runDone"
    /\ jobs[last.job].meta.stage = "done"
    /\ jobs[last.job].status = "done"

\* C32: a job in status error has the errorCode and the stage of one kind of error:
\* TIMEOUT with error_timeout, SCHEMA with error_schema or UNKNOWN with error_unknown.
C32_ErrorCodeMatchesStage ==
    \A id \in DOMAIN jobs :
        jobs[id].status = "error"
           => <<jobs[id].errorCode, jobs[id].meta.stage>> \in
                 { <<"TIMEOUT", "error_timeout">>, <<"SCHEMA", "error_schema">>,
                   <<"UNKNOWN", "error_unknown">> }

\* C33: a job in status done or error carries metrics with startedAt, completedAt and
\* durationMs = completedAt - startedAt, and the startedAt of a terminal write is the
\* one the writing run recorded when it moved the job to processing.
C33_TerminalMetricsComplete ==
    /\ [](\A id \in DOMAIN jobs :
             jobs[id].status \in { "done", "error" }
                => /\ jobs[id].metrics.present
                   /\ jobs[id].metrics.startedAt # NoTime
                   /\ jobs[id].metrics.completedAt # NoTime
                   /\ jobs[id].metrics.durationMs =
                         jobs[id].metrics.completedAt - jobs[id].metrics.startedAt)
    /\ [][\A i \in DOMAIN runs :
             (runs[i].pc \in { "calling", "readB" } /\ runs'[i].pc = "end")
                => jobs'[runs[i].job].metrics.startedAt = runs[i].startedAt
         ]_vars

\* a yt-dlp call is under way or has ended
IsYt(c) == c # NoCall /\ c.fn \in YtFunctions

\* C34: attempt k of a ytDownload or ytMetadata call uses endpoint (k - 1) mod 5, so
\* two consecutive attempts use different endpoints; there are at most retries
\* attempts; the wait after attempt k is min(1000 * 2^(k-1), 8000) ms; no wait
\* follows the last attempt; the error thrown is the error of the last attempt.
C34_EndpointRotationAndBackoff ==
    /\ [](IsYt(call) =>
             /\ call.attempt <= call.retries
             /\ call.attempt >= 1 => call.endpoint = (call.attempt - 1) % 5
             /\ call.pc = "waiting" =>
                   /\ call.attempt < call.retries
                   /\ \/ call.wait = 1000 * 2^(call.attempt - 1) /\ call.wait <= 8000
                      \/ call.wait = 8000 /\ 1000 * 2^(call.attempt - 1) >= 8000
             /\ call.pc = "thrown" => call.attempt = call.retries)
    /\ [][(IsYt(call) /\ IsYt(call')) =>
             /\ call'.attempt \in { call.attempt, call.attempt + 1 }
             /\ call'.attempt = call.attempt + 1 =>
                   (call.pc = "waiting" /\ call'.endpoint # call.endpoint)
             /\ (call.pc = "running" /\ call.attempt = call.retries /\ call'.pc # "running")
                   => call'.pc \in { "returned", "thrown" }
             /\ (call.pc = "running" /\ call'.pc = "thrown") =>
                   /\ value'.thrown = call'.lastError
                   /\ \/ YtTimeout /\ call'.lastError = TimeoutMessage
                      \/ \E msg \in ToolErrors : YtExit(call.attempt, FALSE, msg)
                                                   /\ call'.lastError = msg
         ]_vars

\* the sixth attempt of a call is running: the endpoints have wrapped around and the
\* backoff before it has reached its cap
C34_Witness ==
    /\ IsYt(call)
    /\ call.pc = "running"
    /\ call.attempt = 6
    /\ call.endpoint = 0

\* C35: the yt-dlp process of a download attempt that timed out is stopped before
\* the next attempt starts: at most one download process of a call runs (and writes
\* the destination path) at a time, and none runs once the call has ended.
C35_TimedOutDownloadStopped ==
    (IsYt(call) /\ call.fn = "ytDownload") =>
        /\ Cardinality(call.procs) <= 1
        /\ call.pc \in { "returned", "thrown" } => call.procs = {}

----------------------------------------------------------------------------
(* The poll as a frame condition *)

\* a step of the poll handler: its entry, or the return of one of its reads
PollStep ==
    \/ \E id \in JobIds : PollStart(id)
    \/ \E k \in 1..MaxPolls : PollReadA(k) \/ PollReadB(k)

\* the transcript of a side is attached to the job's result
attached(j, side) ==
    j.result.present /\ j.result.transcripts.present /\ Truthy(j.result.transcripts[side])

\* C36: a poll step leaves status, errorCode, stage, metrics, completedAt and the
\* sources of every job alone; the only thing it writes is the transcripts of a
\* result that is there; a transcript that is attached stays as it is; and a poll
\* that starts when both transcripts are attached starts no read and writes nothing
C36_PollOnlyAddsTranscripts ==
    [][PollStep =>
          \A id \in DOMAIN jobs :
             /\ [jobs'[id] EXCEPT !.result = jobs[id].result] = jobs[id]
             /\ jobs'[id].result # jobs[id].result
                   => /\ jobs[id].result.present
                      /\ [jobs'[id].result EXCEPT
                             !.transcripts = jobs[id].result.transcripts] = jobs[id].result
             /\ \A side \in { "A", "B" } :
                   attached(jobs[id], side)
                      => jobs'[id].result.transcripts[side] = jobs[id].result.transcripts[side]
             /\ (PollStart(id) /\ attached(jobs[id], "A") /\ attached(jobs[id], "B"))
                   => jobs' = jobs /\ polls' = polls
      ]_vars

----------------------------------------------------------------------------
(* What a poller sees of a retried job *)

\* C37: a job that is queued or processing shows no terminal stage (done or
\* error_*) and no completedAt or durationMs in its metrics
C37_NoStaleStageOrMetrics ==
    \A id \in DOMAIN jobs :
        jobs[id].status \in { "queued", "processing" }
           => /\ jobs[id].meta.stage \notin ({ "done" } \cup ErrorStages)
              /\ jobs[id].metrics.completedAt = NoTime
              /\ jobs[id].metrics.durationMs = NoTime

----------------------------------------------------------------------------
(* The analyzer call that outlives its run *)

\* the runs that return in the step
endingRuns == { i \in DOMAIN runs : runs[i].pc # "end" /\ runs'[i].pc = "end" }

\* the fields only a terminal write of runJob sets
terminalFields(j) == <<j.status, j.errorCode, j.completedAt>>

\* C38: the completion of an analyzer call whose run has timed out leaves every job
\* as it is, retried or not; a run that has returned stays returned; and every write
\* of status, errorCode or completedAt that leaves a job done or error is the one
\* write of exactly one returning run of that job
C38_LateCompletionWritesNothing ==
    /\ [][\A i \in DOMAIN runs : (runs[i].orphan /\ ~runs'[i].orphan) => jobs' = jobs]_vars
    /\ [][\A i \in DOMAIN runs : runs[i].pc = "end" => runs'[i].pc = "end"]_vars
    /\ [][\A id \in DOMAIN jobs :
             (terminalFields(jobs'[id]) # terminalFields(jobs[id])
                 /\ jobs'[id].status \in { "done", "error" })
                => /\ Cardinality(endingRuns) = 1
                   /\ \A i \in endingRuns : runs[i].job = id
         ]_vars

\* the analyzer call of a timed-out run has completed while the job stands done with
\* the result of the run a retry had scheduled
C38_Witness ==
    /\ last.op = "runLate"
    /\ jobs[last.job].status = "done"
    /\ jobs[last.job].result.present
    /\ \A i \in DOMAIN runs : ~runs[i].orphan

----------------------------------------------------------------------------
(* The counter of the worker pool *)

\* the numbers of the transcription jobs that are executing
executingIds(ex) == { e.id : e \in ex }

\* C39: active is the number of executing transcription jobs and is never negative;
\* it goes up by one in the step that takes a job off the queue and down by one in
\* the step that ends a job, and in no other step; the promise of a job is settled
\* in the step that ends it and never again; an idle pool counts 0
C39_ActiveCountsExecuting ==
    /\ [](/\ active = Cardinality(executing)
          /\ active >= 0
          /\ (queue = <<>> /\ executing = {}) => active = 0)
    /\ [][LET started == executingIds(executing') \ executingIds(executing)
              ended == executingIds(executing) \ executingIds(executing')
          IN /\ Cardinality(started) + Cardinality(ended) <= 1
             /\ active' = active + Cardinality(started) - Cardinality(ended)
             /\ started # {} <=> (queue # <<>> /\ queue' = Tail(queue))
             /\ \A n \in started : n = Head(queue).id
             /\ \A n \in DOMAIN settled :
                   IF n \in ended
                   THEN settled[n] = "pending" /\ settled'[n] \in { "resolved", "rejected" }
                   ELSE settled'[n] = settled[n]
      ]_vars

\* limit 2: two jobs were executing, one has failed and one has succeeded, and the
\* pool is idle again
C39_Witness ==
    /\ ASR_CONCURRENCY = 2
    /\ \E m, n \in DOMAIN settled : settled[m] = "rejected" /\ settled[n] = "resolved"
    /\ queue = <<>>
    /\ executing = {}
    /\ active = 0
    /\ last.op = "workerEnd"

====
